---------------------------- MODULE Spec2Model ----------------------------
(***************************************************************************)
(* Scarf Store frontend: the Session Gate (middleware), the login form's   *)
(* return-to flow, the API Forwarder (app/api/[...path]/route.ts), the     *)
(* browser's API client (lib/api-client.ts) and the ErrorHandler.          *)
(*                                                                         *)
(* Text is modelled as sequences of one-character strings, so that         *)
(* startsWith, the urlencoded serializer and the urlencoded parser are     *)
(* computed character by character as the platform computes them.          *)
(* An optional value is a sequence of length at most one: <<>> is          *)
(* undefined/null, <<v>> is the value v.                                   *)
(***************************************************************************)
EXTENDS Integers, Sequences, FiniteSets, TLC

VARIABLES
    cookies,   \* the browser's cookie jar: sequence of [name, value], names distinct
    nav,       \* the browser's navigation: the request in flight or the page loaded
    gate,      \* the last request of this navigation the middleware handled, with its decision
    form,      \* the LoginForm component: its submission and what it pushed
    calls,     \* the API Forwarder's invocations, by call id
    client,    \* the apiClient request in progress, with what it sent and what it reported
    handler,   \* the ErrorHandler: the logger's error history, the listener registry,
               \* the last notification and the answer to the last query
    store,     \* localStorage's 'scarf_user' item and the last use of the storage validator
    auth,      \* the useAuth hook: its state and its login or logout in progress
    provider,  \* the AuthProvider: its state and its requests in flight
    cart       \* HomePage: the products shown and the cart

vars == <<cookies, nav, gate, form, calls, client, handler, store, auth, provider, cart>>

\* ------------------------------------------------------------------ bounds

MaxSuffix == 1      \* characters appended to a base path
MaxCookies == 2     \* cookies in a cookie jar
MaxQuery == 3       \* characters of an inbound query string
MaxHeaders == 3     \* headers of a backend response
MaxCalls == 2       \* forwarder invocations that can be in flight together
MaxStatus == 599    \* the largest status code given to classifyError
MaxHistory == 0     \* errors in the history when an apiClient request starts
MaxListeners == 2   \* listener functions given to ErrorHandler.onError
MaxLogged == 52     \* errors logged in a row without clearing the history
MaxVaried == 1      \* errors at the start of a history that come from any entry point
MaxFlights == 2     \* calls of login and logout that await their response at one time
MaxEffects == 2     \* runs of the restore effect of useAuth (two in Strict Mode)
MaxLogins == 2      \* calls of login of the AuthProvider
MaxProducts == 2    \* products the home page loads
MaxStock == 2       \* the largest available_stock of a product

\* ------------------------------------------------------------- text helpers

SeqsUpTo(S, n) == UNION {[1..k -> S] : k \in 0..n}

StartsWith(s, p) == Len(p) <= Len(s) /\ SubSeq(s, 1, Len(p)) = p

\* first index of character c in s, 0 when absent
IndexOf(s, c) ==
    IF \E i \in 1..Len(s) : s[i] = c
    THEN CHOOSE i \in 1..Len(s) : s[i] = c /\ \A j \in 1..(i - 1) : s[j] # c
    ELSE 0

RECURSIVE Split(_, _)
\* String.prototype.split on a one-character separator
Split(s, sep) ==
    LET k == IndexOf(s, sep)
    IN  IF k = 0 THEN <<s>>
        ELSE <<SubSeq(s, 1, k - 1)>> \o Split(SubSeq(s, k + 1, Len(s)), sep)

RECURSIVE Flatten(_)
Flatten(ss) == IF ss = <<>> THEN <<>> ELSE Head(ss) \o Flatten(Tail(ss))

RECURSIVE Join(_, _)
\* Array.prototype.join: the pieces with sep between them
Join(ss, sep) ==
    IF ss = <<>> THEN <<>>
    ELSE IF Len(ss) = 1 THEN ss[1]
    ELSE ss[1] \o sep \o Join(Tail(ss), sep)

RECURSIVE SelectSeqOf(_, _)
SelectSeqOf(s, S) ==
    IF s = <<>> THEN <<>>
    ELSE (IF Head(s) \in S THEN <<Head(s)>> ELSE <<>>) \o SelectSeqOf(Tail(s), S)

\* ----------------------------------------- application/x-www-form-urlencoded

HexDigits == {"0", "1", "2", "3", "4", "5", "6", "7", "8", "9",
              "A", "B", "C", "D", "E", "F", "a", "b", "c", "d", "e", "f"}

\* the urlencoded serializer's output for one character: space becomes "+",
\* the unreserved characters stay, every other character is percent-encoded
PercentEncodeChar(c) ==
    CASE c = "/" -> <<"%", "2", "F">>
      [] c = "%" -> <<"%", "2", "5">>
      [] c = "&" -> <<"%", "2", "6">>
      [] c = "=" -> <<"%", "3", "D">>
      [] c = "+" -> <<"%", "2", "B">>
      [] c = "?" -> <<"%", "3", "F">>
      [] c = " " -> <<"+">>
      [] OTHER -> <<c>>

\* the character a percent-encoded byte stands for
PercentByte(h1, h2) ==
    CASE <<h1, h2>> = <<"2", "F">> -> "/"
      [] <<h1, h2>> = <<"2", "5">> -> "%"
      [] <<h1, h2>> = <<"2", "6">> -> "&"
      [] <<h1, h2>> = <<"3", "D">> -> "="
      [] <<h1, h2>> = <<"2", "B">> -> "+"
      [] <<h1, h2>> = <<"3", "F">> -> "?"
      [] <<h1, h2>> = <<"2", "0">> -> " "
      [] OTHER -> "\\uFFFD"

RECURSIVE UrlEncode(_)
UrlEncode(s) ==
    IF s = <<>> THEN <<>> ELSE PercentEncodeChar(Head(s)) \o UrlEncode(Tail(s))

RECURSIVE UrlDecode(_)
\* the urlencoded parser's decoding of a name or a value: "+" is a space, "%XY"
\* with two hex digits is a byte, a "%" not followed by two hex digits stays
UrlDecode(s) ==
    IF s = <<>> THEN <<>>
    ELSE IF Head(s) = "+" THEN <<" ">> \o UrlDecode(Tail(s))
    ELSE IF Head(s) = "%" /\ Len(s) >= 3 /\ s[2] \in HexDigits /\ s[3] \in HexDigits
         THEN <<PercentByte(s[2], s[3])>> \o UrlDecode(SubSeq(s, 4, Len(s)))
    ELSE <<Head(s)>> \o UrlDecode(Tail(s))

\* one "name=value" piece of a query, split at its first "="
ParsePair(piece) ==
    LET k == IndexOf(piece, "=")
    IN  IF k = 0 THEN [name |-> UrlDecode(piece), value |-> <<>>]
        ELSE [name |-> UrlDecode(SubSeq(piece, 1, k - 1)),
              value |-> UrlDecode(SubSeq(piece, k + 1, Len(piece)))]

RECURSIVE ParsePieces(_)
ParsePieces(pieces) ==
    IF pieces = <<>> THEN <<>>
    ELSE (IF Head(pieces) = <<>> THEN <<>> ELSE <<ParsePair(Head(pieces))>>)
         \o ParsePieces(Tail(pieces))

\* URL.searchParams: the query's list of name-value pairs
SearchParams(query) == ParsePieces(Split(query, "&"))

RECURSIVE SerializePairs(_)
SerializePairs(params) ==
    IF params = <<>> THEN <<>>
    ELSE <<UrlEncode(params[1].name) \o <<"=">> \o UrlEncode(params[1].value)>>
         \o SerializePairs(Tail(params))

\* URLSearchParams.toString()
SearchParamsToString(params) == Join(SerializePairs(params), <<"&">>)

\* URLSearchParams.get(name): the first pair's value, null when there is none
SearchParamsGet(params, name) ==
    IF \E i \in 1..Len(params) : params[i].name = name
    THEN <<params[CHOOSE i \in 1..Len(params) :
                    /\ params[i].name = name
                    /\ \A j \in 1..(i - 1) : params[j].name # name].value>>
    ELSE <<>>

RECURSIVE DropNamed(_, _)
DropNamed(params, name) ==
    IF params = <<>> THEN <<>>
    ELSE (IF Head(params).name = name THEN <<>> ELSE <<Head(params)>>)
         \o DropNamed(Tail(params), name)

\* URLSearchParams.set(name, value): the first pair of that name gets the value
\* and the others of that name go; appended when there is none
SearchParamsSet(params, name, value) ==
    LET k == IF \E i \in 1..Len(params) : params[i].name = name
             THEN CHOOSE i \in 1..Len(params) :
                    /\ params[i].name = name
                    /\ \A j \in 1..(i - 1) : params[j].name # name
             ELSE 0
    IN  IF k = 0 THEN Append(params, [name |-> name, value |-> value])
        ELSE SubSeq(params, 1, k - 1)
             \o <<[name |-> name, value |-> value]>>
             \o DropNamed(SubSeq(params, k + 1, Len(params)), name)

\* ------------------------------------------------------------------ cookies

SESSION_COOKIE == "session_id"

\* RequestCookies.get(name)?.value
CookieValue(jar, name) ==
    IF \E i \in 1..Len(jar) : jar[i].name = name
    THEN <<jar[CHOOSE i \in 1..Len(jar) : jar[i].name = name].value>>
    ELSE <<>>

\* a Set-Cookie applied to the jar: the cookie of that name is replaced in place
CookieStore(jar, name, value) ==
    IF \E i \in 1..Len(jar) : jar[i].name = name
    THEN [i \in 1..Len(jar) |->
            IF jar[i].name = name THEN [name |-> name, value |-> value] ELSE jar[i]]
    ELSE Append(jar, [name |-> name, value |-> value])

SessionValues == {"", "abc", "xyz"}

CookiePairs ==
    {[name |-> SESSION_COOKIE, value |-> v] : v \in SessionValues}
    \cup {[name |-> "theme", value |-> "dark"]}

CookieJars ==
    {j \in SeqsUpTo(CookiePairs, MaxCookies) :
        \A a, b \in 1..Len(j) : a # b => j[a].name # j[b].name}

\* ------------------------------------------------------------- Session Gate

LOGIN == <<"/", "l", "o", "g", "i", "n">>
HOME == <<"/", "h", "o", "m", "e">>
ROOT == <<"/">>
NEXT_PARAM == <<"n", "e", "x", "t">>

AUTH_ONLY_PATHS == {LOGIN}
PUBLIC_PREFIXES == {LOGIN}
PUBLIC_EXACT == {ROOT}

\* the prefixes config.matcher's negative lookahead excludes, after the leading "/"
MATCHER_EXCLUDED ==
    {<<"_", "n", "e", "x", "t", "/", "s", "t", "a", "t", "i", "c">>,
     <<"_", "n", "e", "x", "t", "/", "i", "m", "a", "g", "e">>,
     <<"f", "a", "v", "i", "c", "o", "n", ".", "i", "c", "o">>,
     <<"a", "p", "i", "/">>}

\* config.matcher: whether the middleware runs for the path
Matcher(pathname) ==
    /\ StartsWith(pathname, ROOT)
    /\ ~\E x \in MATCHER_EXCLUDED : StartsWith(Tail(pathname), x)

\* !!value of an optional string: undefined and "" are falsy
Truthy(opt) == opt # <<>> /\ opt[1] # ""

NextResponseNext == [kind |-> "next", pathname |-> <<>>, search |-> <<>>]

\* NextResponse.redirect(url)
NextResponseRedirect(pathname, search) ==
    [kind |-> "redirect", pathname |-> pathname, search |-> search]

\* PUBLIC_EXACT.includes(pathname) || PUBLIC_PREFIXES.some(p => pathname.startsWith(p))
isPublic(pathname) ==
    pathname \in PUBLIC_EXACT \/ \E p \in PUBLIC_PREFIXES : StartsWith(pathname, p)

\* AUTH_ONLY_PATHS.some(p => pathname.startsWith(p))
isAuthOnly(pathname) == \E p \in AUTH_ONLY_PATHS : StartsWith(pathname, p)

\* new URL("/login", request.url) with searchParams.set("next", pathname)
LoginUrlSearch(pathname) ==
    SearchParamsToString(SearchParamsSet(<<>>, NEXT_PARAM, pathname))

\* a mutant: the second rule forgets the public paths
MiddlewarePublicIgnored(pathname, jar) ==
    LET isAuthenticated == Truthy(CookieValue(jar, SESSION_COOKIE))
    IN  IF isAuthOnly(pathname) /\ isAuthenticated
        THEN NextResponseRedirect(HOME, <<>>)
        ELSE IF ~isAuthenticated
        THEN NextResponseRedirect(LOGIN, LoginUrlSearch(pathname))
        ELSE NextResponseNext

\* a mutant: the first rule forgets to ask for the session
MiddlewareNoAuthCheck(pathname, jar) ==
    LET isAuthenticated == Truthy(CookieValue(jar, SESSION_COOKIE))
    IN  IF isAuthOnly(pathname)
        THEN NextResponseRedirect(HOME, <<>>)
        ELSE IF ~isPublic(pathname) /\ ~isAuthenticated
        THEN NextResponseRedirect(LOGIN, LoginUrlSearch(pathname))
        ELSE NextResponseNext

\* a mutant: the return-to path is put into the URL without being encoded
MiddlewareRawNext(pathname, jar) ==
    LET isAuthenticated == Truthy(CookieValue(jar, SESSION_COOKIE))
    IN  IF isAuthOnly(pathname) /\ isAuthenticated
        THEN NextResponseRedirect(HOME, <<>>)
        ELSE IF ~isPublic(pathname) /\ ~isAuthenticated
        THEN NextResponseRedirect(LOGIN, NEXT_PARAM \o <<"=">> \o pathname)
        ELSE NextResponseNext

\* a mutant: only the exact public paths count as public
MiddlewareExactOnly(pathname, jar) ==
    LET isAuthenticated == Truthy(CookieValue(jar, SESSION_COOKIE))
    IN  IF isAuthOnly(pathname) /\ isAuthenticated
        THEN NextResponseRedirect(HOME, <<>>)
        ELSE IF pathname \notin PUBLIC_EXACT /\ ~isAuthenticated
        THEN NextResponseRedirect(LOGIN, LoginUrlSearch(pathname))
        ELSE NextResponseNext

\* a mutant: the first rule also sends the requests for /home to /home
MiddlewareHomeAuthOnly(pathname, jar) ==
    LET isAuthenticated == Truthy(CookieValue(jar, SESSION_COOKIE))
    IN  IF (isAuthOnly(pathname) \/ StartsWith(pathname, HOME)) /\ isAuthenticated
        THEN NextResponseRedirect(HOME, <<>>)
        ELSE IF ~isPublic(pathname) /\ ~isAuthenticated
        THEN NextResponseRedirect(LOGIN, LoginUrlSearch(pathname))
        ELSE NextResponseNext

\* a mutant: any cookie with a value counts as a session
MiddlewareAnyCookie(pathname, jar) ==
    LET isAuthenticated == \E i \in 1..Len(jar) : jar[i].value # ""
    IN  IF isAuthOnly(pathname) /\ isAuthenticated
        THEN NextResponseRedirect(HOME, <<>>)
        ELSE IF ~isPublic(pathname) /\ ~isAuthenticated
        THEN NextResponseRedirect(LOGIN, LoginUrlSearch(pathname))
        ELSE NextResponseNext

middleware(pathname, jar) ==
    LET sessionId == CookieValue(jar, SESSION_COOKIE)
        isAuthenticated == Truthy(sessionId)
    IN  IF isAuthOnly(pathname) /\ isAuthenticated
        THEN NextResponseRedirect(HOME, <<>>)
        ELSE IF ~isPublic(pathname) /\ ~isAuthenticated
        THEN NextResponseRedirect(LOGIN, LoginUrlSearch(pathname))
        ELSE NextResponseNext

\* ----------------------------------------------- navigation through the gate

\* the paths a browser requests: a base path and up to MaxSuffix more characters
ADMIN_DASHBOARD ==
    <<"/", "a", "d", "m", "i", "n", "/", "d", "a", "s", "h", "b", "o", "a", "r", "d">>

ENCODED_SLASH_PATH == <<"/", "a", "%", "2", "F", "b">>

BasePaths ==
    {ROOT, LOGIN, HOME, ADMIN_DASHBOARD, ENCODED_SLASH_PATH,
     <<"/", "a", "p", "i", "/">>}

PathChars == {"/", "a", "%"}

Paths == {b \o x : b \in BasePaths, x \in SeqsUpTo(PathChars, MaxSuffix)}

\* the query strings a user types with a URL
TypedSearches ==
    {<<>>,
     <<"a", "=", "a">>,
     NEXT_PARAM \o <<"=">>,
     NEXT_PARAM \o <<"=", "%", "2", "F", "h", "o", "m", "e">>}

NoGate == [ran |-> FALSE, pathname |-> <<>>, jar |-> <<>>, res |-> NextResponseNext]

FormIdle == [pc |-> "idle", outcome |-> "none", search |-> <<>>,
             returnTo |-> <<>>, pushed |-> <<>>]

\* the user enters a URL: the browser requests it (the page shown is left, and
\* its LoginForm, if any, is unmounted)
Visit(pathname, search) ==
    /\ nav.state = "loaded"
    /\ form.pc = "idle"
    /\ nav' = [state |-> "requesting", pathname |-> pathname, search |-> search,
               returnTo |-> <<>>]
    /\ form' = FormIdle
    /\ gate' = NoGate
    /\ UNCHANGED <<cookies, calls, client, handler, store, auth, provider, cart>>

\* the middleware handles the request in flight; the browser follows a redirect
\* with a new request, and loads the page on a pass-through. returnTo remembers
\* the path a redirect to the login page was emitted for.
Gate ==
    /\ nav.state = "requesting"
    /\ Matcher(nav.pathname)
    /\ LET res == middleware(nav.pathname, cookies)
       IN  /\ gate' = [ran |-> TRUE, pathname |-> nav.pathname, jar |-> cookies,
                       res |-> res]
           /\ nav' = IF res.kind = "next"
                     THEN [nav EXCEPT !.state = "loaded"]
                     ELSE [state |-> "requesting", pathname |-> res.pathname,
                           search |-> res.search,
                           returnTo |-> IF res.pathname = LOGIN
                                        THEN <<nav.pathname>> ELSE <<>>]
    /\ UNCHANGED <<cookies, form, calls, client, handler, store, auth, provider, cart>>

\* a path config.matcher excludes reaches its route without the middleware
Bypass ==
    /\ nav.state = "requesting"
    /\ ~Matcher(nav.pathname)
    /\ nav' = [nav EXCEPT !.state = "loaded"]
    /\ UNCHANGED <<cookies, gate, form, calls, client, handler, store, auth, provider, cart>>

\* the cookie jar changes outside the gate: a cookie expires, the user clears the
\* cookies, another tab logs in or out
ChangeCookies(jar) ==
    /\ jar # cookies
    /\ cookies' = jar
    /\ UNCHANGED <<nav, gate, form, calls, client, handler, store, auth, provider, cart>>

\* ---------------------------------------------------------------- LoginForm

\* handleSubmit up to `await login(...)`; searchParams is the render's
Submit ==
    /\ nav.state = "loaded"
    /\ nav.pathname = LOGIN
    /\ form.pc = "idle"
    /\ form' = [pc |-> "submitting", outcome |-> "none", search |-> nav.search,
                returnTo |-> nav.returnTo, pushed |-> <<>>]
    /\ UNCHANGED <<cookies, nav, gate, calls, client, handler, store, auth, provider, cart>>

\* a mutant: the login form always goes to /home
NextOrHomeAlwaysHome(search) == HOME

\* searchParams.get("next") ?? "/home"
NextOrHome(search) ==
    LET next == SearchParamsGet(SearchParams(search), NEXT_PARAM)
    IN  IF next = <<>> THEN HOME ELSE next[1]

\* login resolved: the backend has set the session cookie, and the form pushes
\* the return-to path (an empty URL is the page itself)
LoginOk(sid) ==
    /\ form.pc = "submitting"
    /\ LET next == NextOrHome(form.search)
       IN  /\ form' = [form EXCEPT !.pc = "idle", !.outcome = "ok",
                                   !.pushed = <<next>>]
           /\ nav' = IF next = <<>>
                     THEN [nav EXCEPT !.state = "requesting"]
                     ELSE [state |-> "requesting", pathname |-> next,
                           search |-> <<>>, returnTo |-> <<>>]
    /\ cookies' = CookieStore(cookies, SESSION_COOKIE, sid)
    /\ UNCHANGED <<gate, calls, client, handler, store, auth, provider, cart>>

\* login rejected: the catch block sets the error, nothing is pushed
LoginFail ==
    /\ form.pc = "submitting"
    /\ form' = [form EXCEPT !.pc = "idle", !.outcome = "failed"]
    /\ UNCHANGED <<cookies, nav, gate, calls, client, handler, store, auth, provider, cart>>

NextGate ==
    \/ \E p \in Paths, s \in TypedSearches : Visit(p, s)
    \/ Gate
    \/ Bypass
    \/ \E j \in CookieJars : ChangeCookies(j)
    \/ Submit
    \/ \E sid \in SessionValues \ {""} : LoginOk(sid)
    \/ LoginFail


\* ------------------------------------------------------------ fetch Headers

\* a header is [name, value]; a value is the sequence of the values that the
\* platform joins with ", " when it combines headers of one name
ToLowerCase(name) ==
    CASE name = "Set-Cookie" -> "set-cookie"
      [] name = "Transfer-Encoding" -> "transfer-encoding"
      [] name = "Content-Encoding" -> "content-encoding"
      [] name = "Content-Type" -> "content-type"
      [] name = "X-Total" -> "x-total"
      [] OTHER -> name

\* the lower-case header names in the order Headers iterates them (sorted)
HEADER_ORDER ==
    <<"content-encoding", "content-type", "set-cookie", "transfer-encoding", "x-total">>

RECURSIVE ValuesOf(_, _)
\* the values of the headers named n (case-insensitively), in list order
ValuesOf(list, n) ==
    IF list = <<>> THEN <<>>
    ELSE (IF ToLowerCase(Head(list).name) = n THEN <<Head(list).value>> ELSE <<>>)
         \o ValuesOf(Tail(list), n)

\* what Headers iteration yields for one name: each Set-Cookie on its own, the
\* values of any other name combined into one
EntriesFor(list, n) ==
    LET vs == ValuesOf(list, n)
    IN  IF vs = <<>> THEN <<>>
        ELSE IF n = "set-cookie"
        THEN [i \in 1..Len(vs) |-> [name |-> n, value |-> vs[i]]]
        ELSE <<[name |-> n, value |-> Flatten(vs)]>>

\* Headers.forEach: the (value, key) pairs in iteration order
HeadersEntries(list) ==
    Flatten([i \in 1..Len(HEADER_ORDER) |-> EntriesFor(list, HEADER_ORDER[i])])

\* Headers.append(name, value)
HeadersAppend(list, name, value) ==
    Append(list, [name |-> ToLowerCase(name), value |-> value])

RECURSIVE HeadersDelete(_, _)
HeadersDelete(list, name) ==
    IF list = <<>> THEN <<>>
    ELSE (IF ToLowerCase(Head(list).name) = ToLowerCase(name)
          THEN <<>> ELSE <<Head(list)>>)
         \o HeadersDelete(Tail(list), name)

\* Headers.set(name, value): the first header of that name gets the value and
\* the others of that name go; appended when there is none
HeadersSet(list, name, value) ==
    LET n == ToLowerCase(name)
        k == IF \E i \in 1..Len(list) : ToLowerCase(list[i].name) = n
             THEN CHOOSE i \in 1..Len(list) :
                    /\ ToLowerCase(list[i].name) = n
                    /\ \A j \in 1..(i - 1) : ToLowerCase(list[j].name) # n
             ELSE 0
    IN  IF k = 0 THEN Append(list, [name |-> n, value |-> value])
        ELSE SubSeq(list, 1, k - 1)
             \o <<[name |-> n, value |-> value]>>
             \o HeadersDelete(SubSeq(list, k + 1, Len(list)), n)

\* ------------------------------------------------------------ API Forwarder

BACKEND_API == "http://localhost:8000/api/"

Methods == {"GET", "POST", "PUT", "DELETE"}

\* the statuses for which the Response constructor refuses a body, even ""
NULL_BODY_STATUS == {101, 103, 204, 205, 304}

RECURSIVE Singletons(_)
Singletons(s) == IF s = <<>> THEN <<>> ELSE <<<<Head(s)>>>> \o Singletons(Tail(s))

\* a mutant: the query string is left out of the target URL
TargetUrlNoQuery(segs, query) == <<BACKEND_API>> \o Join(Singletons(segs), <<"/">>)

\* `http://localhost:8000/api/${path}${searchParams ? '?' + searchParams : ''}`
\* with path = params.path.join('/') and searchParams = nextUrl.searchParams.toString()
TargetUrl(segs, query) ==
    LET path == Join(Singletons(segs), <<"/">>)
        searchParams == SearchParamsToString(SearchParams(query))
    IN  <<BACKEND_API>> \o path
        \o (IF searchParams # <<>> THEN <<"?">> \o searchParams ELSE <<>>)

RECURSIVE CookiePieces(_)
CookiePieces(jar) ==
    IF jar = <<>> THEN <<>>
    ELSE <<<<Head(jar).name, "=", Head(jar).value>>>> \o CookiePieces(Tail(jar))

\* allCookies.map(c => `${c.name}=${c.value}`).join('; ')
CookieString(jar) == Join(CookiePieces(jar), <<"; ">>)

\* the Cookie header the browser sent: what request.cookies was parsed from
InboundCookieHeader(jar) == IF jar = <<>> THEN <<>> ELSE <<CookieString(jar)>>

\* buildHeadersWithCookies: a copy of the request's headers, its Cookie header
\* set to the cookies re-serialized when there are any. The model keeps the
\* Cookie header of the headers: <<>> when there is none.
\* a mutant: only the first cookie is written to the Cookie header
buildHeadersKeepOnlyFirst(jar) ==
    IF Len(jar) > 0 THEN <<CookieString(<<Head(jar)>>)>> ELSE InboundCookieHeader(jar)

buildHeadersWithCookies(jar) ==
    IF Len(jar) > 0 THEN <<CookieString(jar)>> ELSE InboundCookieHeader(jar)

\* the init of the handler's fetch(url, {...})
OutboundCall(req) ==
    [method |-> req.method,
     url |-> TargetUrl(req.segs, req.query),
     cookie |-> IF req.method = "GET" THEN InboundCookieHeader(req.jar)
                ELSE buildHeadersWithCookies(req.jar),
     body |-> IF req.method = "GET" \/ req.body = "" THEN <<>> ELSE <<req.body>>]

\* the headers of new NextResponse(body, { status }) for a string body
InitialHeaders == <<[name |-> "content-type", value |-> <<"text/plain;charset=UTF-8">>]>>

RECURSIVE CopyHeaders(_, _)
\* the body of response.headers.forEach(...), over the entries in order
CopyHeaders(entries, acc) ==
    IF entries = <<>> THEN acc
    ELSE LET key == Head(entries).name
             value == Head(entries).value
         IN  CopyHeaders(Tail(entries),
                IF ToLowerCase(key) = "set-cookie"
                THEN HeadersAppend(acc, key, value)
                ELSE IF ToLowerCase(key) \notin {"transfer-encoding", "content-encoding"}
                THEN HeadersSet(acc, key, value)
                ELSE acc)

NoResponse == [kind |-> "none", status |-> 0, headers |-> <<>>, body |-> <<>>]

\* the handler's promise rejected: the error left the handler
Thrown == [kind |-> "thrown", status |-> 0, headers |-> <<>>, body |-> <<>>]

\* JSON.stringify({ error: `Route handler error: ${error}` })
ErrorJson(error) == <<"{", "\"error\"", ":", "\"", "Route handler error: ", error, "\"", "}">>

\* the catch block's response
ErrorResponse(error) ==
    [kind |-> "response", status |-> 500,
     headers |-> <<[name |-> "content-type", value |-> <<"application/json">>]>>,
     body |-> ErrorJson(error)]

\* a mutant: no handler catches
OnErrorUncaught(method, error) == Thrown

\* what a handler does with an error thrown inside it: POST, PUT and DELETE
\* catch it, GET has no try block
OnError(method, error) ==
    IF method = "GET" THEN Thrown ELSE ErrorResponse(error)

\* the handler from the backend's response on: the response is built (the
\* constructor throws on a null body status, response.text() being a string)
\* and the headers are copied
Relay(method, backend) ==
    IF backend.status \in NULL_BODY_STATUS
    THEN OnError(method, "TypeError: Response constructor: Invalid response status code")
    ELSE [kind |-> "response", status |-> backend.status,
          headers |-> CopyHeaders(HeadersEntries(backend.headers), InitialHeaders),
          body |-> backend.body]

NoRequest == [method |-> "GET", segs |-> <<>>, query |-> <<>>, jar |-> <<>>, body |-> ""]

NoBackend == [kind |-> "none", status |-> 0, headers |-> <<>>, body |-> <<>>, error |-> ""]

IdleCall == [pc |-> "idle", req |-> NoRequest, out |-> <<>>,
             backend |-> NoBackend, res |-> NoResponse]

CallIds == 1..MaxCalls

\* a mutant: a GET that another settled call has already answered is served
\* from that call, without a fetch
ReceiveCached(i, method, segs, query, jar, body) ==
    /\ calls[i].pc = "idle"
    /\ LET req == [method |-> method, segs |-> segs, query |-> query,
                   jar |-> jar, body |-> body]
           hits == {j \in CallIds : /\ calls[j].pc = "settled"
                                    /\ calls[j].req = req
                                    /\ calls[j].backend.kind = "response"}
       IN  calls' = [calls EXCEPT ![i] =
                        IF method = "GET" /\ hits # {}
                        THEN LET j == CHOOSE j \in hits : TRUE
                             IN  [pc |-> "settled", req |-> req, out |-> <<>>,
                                  backend |-> calls[j].backend, res |-> calls[j].res]
                        ELSE [pc |-> "fetching", req |-> req, out |-> <<OutboundCall(req)>>,
                              backend |-> NoBackend, res |-> NoResponse]]
    /\ UNCHANGED <<cookies, nav, gate, form, client, handler, store, auth, provider, cart>>

\* a request arrives under /api/: the handler runs up to its `await fetch(...)`
Receive(i, method, segs, query, jar, body) ==
    /\ calls[i].pc = "idle"
    /\ LET req == [method |-> method, segs |-> segs, query |-> query,
                   jar |-> jar, body |-> body]
       IN  calls' = [calls EXCEPT ![i] =
                        [pc |-> "fetching", req |-> req, out |-> <<OutboundCall(req)>>,
                         backend |-> NoBackend, res |-> NoResponse]]
    /\ UNCHANGED <<cookies, nav, gate, form, client, handler, store, auth, provider, cart>>

\* the backend answers: the handler resumes and relays the response
BackendResponds(i, status, headers, body) ==
    /\ calls[i].pc = "fetching"
    /\ LET backend == [kind |-> "response", status |-> status, headers |-> headers,
                       body |-> body, error |-> ""]
       IN  calls' = [calls EXCEPT ![i].pc = "settled",
                                  ![i].backend = backend,
                                  ![i].res = Relay(calls[i].req.method, backend)]
    /\ UNCHANGED <<cookies, nav, gate, form, client, handler, store, auth, provider, cart>>

\* the invocation is over: its response went to the browser (or its error to
\* the runtime); the slot takes the next request
Finish(i) ==
    /\ calls[i].pc = "settled"
    /\ calls' = [calls EXCEPT ![i] = IdleCall]
    /\ UNCHANGED <<cookies, nav, gate, form, client, handler, store, auth, provider, cart>>

\* a mutant: one failed fetch fails every call in flight (a shared connection)
BackendFailsAll(i, error) ==
    /\ calls[i].pc = "fetching"
    /\ calls' = [j \in CallIds |->
                    IF calls[j].pc = "fetching"
                    THEN [calls[j] EXCEPT !.pc = "settled",
                                          !.backend = [NoBackend EXCEPT !.kind = "error",
                                                                        !.error = error],
                                          !.res = OnError(calls[j].req.method, error)]
                    ELSE calls[j]]
    /\ UNCHANGED <<cookies, nav, gate, form, client, handler, store, auth, provider, cart>>

\* the outbound fetch throws (network failure, timeout, DNS failure)
BackendFails(i, error) ==
    /\ calls[i].pc = "fetching"
    /\ calls' = [calls EXCEPT ![i].pc = "settled",
                              ![i].backend = [NoBackend EXCEPT !.kind = "error",
                                                               !.error = error],
                              ![i].res = OnError(calls[i].req.method, error)]
    /\ UNCHANGED <<cookies, nav, gate, form, client, handler, store, auth, provider, cart>>

\* ---- the inputs of the forwarder

Segments == {<<"products", "1">>, <<"auth", "login">>, <<"categories">>}

QueryChars == {"a", "=", "&", "/"}

LOCALE_PT == <<"l", "o", "c", "a", "l", "e", "=", "p", "t">>

Queries == SeqsUpTo(QueryChars, MaxQuery) \cup {LOCALE_PT}

RequestBodies == {"", "{}"}

RequestJars == {<<>>, <<[name |-> SESSION_COOKIE, value |-> "abc"]>>}

TWO_COOKIES ==
    <<[name |-> SESSION_COOKIE, value |-> "abc"], [name |-> "theme", value |-> "dark"]>>

FetchErrors == {"TypeError: fetch failed", "TimeoutError: The operation was aborted"}

BackendHeaders ==
    {[name |-> "Set-Cookie", value |-> <<"session_id=abc">>],
     [name |-> "Set-Cookie", value |-> <<"csrf=1">>],
     [name |-> "Transfer-Encoding", value |-> <<"chunked">>],
     [name |-> "content-encoding", value |-> <<"gzip">>],
     [name |-> "X-Total", value |-> <<"7">>],
     [name |-> "x-total", value |-> <<"8">>]}

HeaderLists == SeqsUpTo(BackendHeaders, MaxHeaders)

Statuses == {200, 204, 404, 500}

ResponseBodies == {<<>>, <<"[]">>}

\* ---------------------------------------------------------- the ErrorHandler

\* a message is its words in order
Includes(message, word) == \E k \in 1..Len(message) : message[k] = word

\* a mutant: only the codes with a name of their own are told apart
classifyErrorNamedOnly(statusCode) ==
    IF statusCode = <<>> THEN "UNKNOWN"
    ELSE IF statusCode[1] = 401 THEN "AUTHENTICATION"
    ELSE IF statusCode[1] = 403 THEN "AUTHORIZATION"
    ELSE IF statusCode[1] = 404 THEN "NOT_FOUND"
    ELSE "UNKNOWN"

\* ErrorHandler.classifyError(statusCode?): `!statusCode` is true of undefined
\* and of 0
classifyError(statusCode) ==
    IF statusCode = <<>> \/ statusCode[1] = 0 THEN "UNKNOWN"
    ELSE IF statusCode[1] = 401 THEN "AUTHENTICATION"
    ELSE IF statusCode[1] = 403 THEN "AUTHORIZATION"
    ELSE IF statusCode[1] = 404 THEN "NOT_FOUND"
    ELSE IF statusCode[1] >= 500 THEN "SERVER"
    ELSE IF statusCode[1] >= 400 THEN "VALIDATION"
    ELSE "UNKNOWN"

\* ErrorHandler.createError, without the timestamp and the random id
createError(type, message, statusCode) ==
    [type |-> type, message |-> message, statusCode |-> statusCode]

maxErrors == 50

\* a mutant: nothing is ever dropped from the history
LoggerLogNoLimit(errors, error) == Append(errors, error)

\* MemoryErrorLogger.log: push, then drop the oldest once over maxErrors
LoggerLog(errors, error) ==
    LET pushed == Append(errors, error)
    IN  IF Len(pushed) > maxErrors THEN Tail(pushed) ELSE pushed

\* this.errorListeners.forEach(listener => listener(appError)): the listeners
\* of the Set are called in insertion order, each with the error
Notify(h, appError) ==
    [h EXCEPT !.delivered = [k \in 1..Len(h.listeners) |->
                                [listener |-> h.listeners[k], error |-> appError]]]

\* this.logger.log(appError), then the listeners
LogAndNotify(h, appError) ==
    Notify([h EXCEPT !.log = LoggerLog(h.log, appError)], appError)

\* ErrorHandler.handle(error): a string gives an UNKNOWN error, an Error is
\* classified without a status code, an AppError is taken as it is
AppErrorOf(error) ==
    IF error.form = "string" THEN createError("UNKNOWN", error.message, <<>>)
    ELSE IF error.form = "Error" THEN createError(classifyError(<<>>), error.message, <<>>)
    ELSE [type |-> error.type, message |-> error.message, statusCode |-> error.statusCode]

handle(h, error) == LogAndNotify(h, AppErrorOf(error))

\* ErrorHandler.handleAPIError(statusCode, message): the handler afterwards
handleAPIError(h, statusCode, message) ==
    LogAndNotify(h, createError(classifyError(<<statusCode>>), message, <<statusCode>>))

\* 'Falha ao conectar com o servidor. Verifique sua conexao.'
NETWORK_MESSAGE ==
    <<"Falha", "ao", "conectar", "com", "o", "servidor.", "Verifique", "sua", "conexao.">>

\* ErrorHandler.handleNetworkError(originalError): the handler afterwards
handleNetworkError(h) ==
    LogAndNotify(h, createError("NETWORK", NETWORK_MESSAGE, <<>>))

\* a mutant: the listeners are kept in an array
onErrorPush(h, listener) ==
    [h EXCEPT !.listeners = Append(h.listeners, listener),
              !.lastOp = [h.lastOp EXCEPT ![listener] = "sub"]]

\* ErrorHandler.onError(listener): Set.add keeps one entry of a function, at
\* the place of its first insertion
onError(h, listener) ==
    [h EXCEPT !.listeners = IF \E k \in 1..Len(h.listeners) : h.listeners[k] = listener
                            THEN h.listeners
                            ELSE Append(h.listeners, listener),
              !.lastOp = [h.lastOp EXCEPT ![listener] = "sub"]]

\* a mutant: the returned function leaves the listener in the Set
unsubscribeKeeps(h, listener) ==
    [h EXCEPT !.lastOp = [h.lastOp EXCEPT ![listener] = "unsub"]]

\* the function onError returned: Set.delete
unsubscribe(h, listener) ==
    [h EXCEPT !.listeners = SelectSeq(h.listeners, LAMBDA l : l # listener),
              !.lastOp = [h.lastOp EXCEPT ![listener] = "unsub"]]

\* ErrorHandler.isAuthError(error)
isAuthError(error) ==
    \/ error.type = "AUTHENTICATION"
    \/ error.statusCode = <<401>>
    \/ error.statusCode = <<403>>

Listeners == 1..MaxListeners

\* a caller asks ErrorHandler.classifyError for the type of a status code
Classify(statusCode) ==
    /\ handler' = [handler EXCEPT !.classified =
                      <<[statusCode |-> statusCode, type |-> classifyError(statusCode)]>>,
                                  !.authChecked = <<>>]
    /\ UNCHANGED <<cookies, nav, gate, form, calls, client, store, auth, provider, cart>>

\* a caller asks ErrorHandler.isAuthError about an error
IsAuthError(error) ==
    /\ handler' = [handler EXCEPT !.authChecked =
                      <<[error |-> error, result |-> isAuthError(error)]>>,
                                  !.classified = <<>>]
    /\ UNCHANGED <<cookies, nav, gate, form, calls, client, store, auth, provider, cart>>

\* a caller subscribes a listener: ErrorHandler.onError(listener)
Subscribe(listener) ==
    /\ handler' = onError(handler, listener)
    /\ UNCHANGED <<cookies, nav, gate, form, calls, client, store, auth, provider, cart>>

\* a caller calls an unsubscribe function that an earlier onError(listener)
\* returned
Unsubscribe(listener) ==
    /\ handler.lastOp[listener] # "none"
    /\ handler' = unsubscribe(handler, listener)
    /\ UNCHANGED <<cookies, nav, gate, form, calls, client, store, auth, provider, cart>>

\* a caller reports an error: ErrorHandler.handle(error)
Handle(error) ==
    /\ handler' = handle(handler, error)
    /\ UNCHANGED <<cookies, nav, gate, form, calls, client, store, auth, provider, cart>>

\* a caller reports a response status: ErrorHandler.handleAPIError(status, message)
HandleAPIError(statusCode, message) ==
    /\ handler' = handleAPIError(handler, statusCode, message)
    /\ UNCHANGED <<cookies, nav, gate, form, calls, client, store, auth, provider, cart>>

\* a caller reports a failed fetch: ErrorHandler.handleNetworkError(error)
HandleNetworkError ==
    /\ handler' = handleNetworkError(handler)
    /\ UNCHANGED <<cookies, nav, gate, form, calls, client, store, auth, provider, cart>>

\* ErrorHandler.clearErrors()
ClearErrors ==
    /\ handler' = [handler EXCEPT !.log = <<>>]
    /\ UNCHANGED <<cookies, nav, gate, form, calls, client, store, auth, provider, cart>>

ErrorTypes ==
    {"NETWORK", "VALIDATION", "AUTHENTICATION", "AUTHORIZATION", "NOT_FOUND",
     "SERVER", "UNKNOWN"}

\* the errors isAuthError is asked about: ErrorHandler.createError(type, 'Test')
\* with and without a status code
AppErrors ==
    {createError(ty, <<"Test">>, s) :
        ty \in ErrorTypes, s \in {<<>>, <<401>>, <<403>>, <<422>>, <<500>>}}

\* what is given to ErrorHandler.handle: a string, an Error or an AppError
HandleInput(kind, type, message) ==
    [form |-> kind, type |-> type, message |-> message, statusCode |-> <<>>]

HandleInputs ==
    {HandleInput("string", "UNKNOWN", <<"Test">>),
     HandleInput("Error", "UNKNOWN", <<"Test", "failed">>),
     HandleInput("AppError", "UNKNOWN", <<"Test", "error">>)}

\* `Error ${i}`
NumberedMessage(i) == <<"Error", ToString(i)>>

\* the i of a history entry whose message is `Error ${i}`, -1 for another message
NumberOf(entry) ==
    IF entry.message[1] = "Error"
    THEN CHOOSE i \in 0..MaxLogged : ToString(i) = entry.message[2]
    ELSE -1

\* the i of the next error of the loop that fills the history
NextNumber(log) ==
    LET numbers == {NumberOf(log[k]) : k \in 1..Len(log)} \cup {-1}
    IN  1 + CHOOSE n \in numbers : \A m \in numbers : m <= n

\* the status codes classifyError is asked about: none, 0 and every code up to
\* MaxStatus
StatusCodeInputs == {<<>>} \cup {<<n>> : n \in 0..MaxStatus}

\* ------------------------------------------------------------ the API client

retries == 3

\* response.ok
Ok(status) == status >= 200 /\ status <= 299

\* the init of the client's fetch(url, {...options, signal, headers, credentials})
FetchInit(method, body) ==
    [method |-> method,
     headers |-> HeadersSet(<<>>, "Content-Type", <<"application/json">>),
     credentials |-> "include",
     body |-> body]

\* `HTTP ${response.status}`
HttpStatusMessage(status) == <<"HTTP", ToString(status)>>

\* data?.detail || data?.message || `HTTP ${response.status}`, data being the
\* parsed body, or { detail: `HTTP ${response.status}` } when json() throws
ErrorMessage(status, json) ==
    LET data == IF json.parsed THEN json
                ELSE [json EXCEPT !.detail = <<HttpStatusMessage(status)>>]
    IN  IF data.detail # <<>> /\ data.detail[1] # <<>> THEN data.detail[1]
        ELSE IF data.message # <<>> /\ data.message[1] # <<>> THEN data.message[1]
        ELSE HttpStatusMessage(status)

NoResult == [kind |-> "none", data |-> <<>>, error |-> <<>>, status |-> 0]

\* what the promise of request() settles with: the function has no throw and
\* its catch block returns, so it resolves
Resolved(data, error, status) ==
    [kind |-> "resolved", data |-> data, error |-> error, status |-> status]

\* how the last fetch of the request ended: a response with its status, or an
\* error with its name
NoOutcome == [kind |-> "none", status |-> 0, name |-> ""]

ResponseOutcome(status) == [kind |-> "response", status |-> status, name |-> ""]

ErrorOutcome(error) == [kind |-> "error", status |-> 0, name |-> error.name]

IdleClient ==
    [pc |-> "idle", method |-> "GET", body |-> <<>>, csrf |-> <<>>, attempt |-> 0,
     sent |-> <<>>, last |-> NoOutcome, spy |-> <<>>, result |-> NoResult]

NoHandler ==
    [classified |-> <<>>, authChecked |-> <<>>, log |-> <<>>,
     listeners |-> <<>>, lastOp |-> [l \in Listeners |-> "none"], delivered |-> <<>>]

\* this.request(endpoint, options, attempt + 1): the next fetch goes out
Retry(c) ==
    [c EXCEPT !.attempt = c.attempt + 1,
              !.sent = Append(c.sent, FetchInit(c.method, c.body))]

Settle(c, result) == [c EXCEPT !.pc = "done", !.result = result]

\* apiClient.get/post/put/delete(endpoint, body): request() runs up to its
\* `await fetch(...)`; csrf is the content of the page's csrf-token meta tag
\* at that time, spy records the ErrorHandler methods this request calls
ClientRequest(method, body, csrf) ==
    /\ client.pc \in {"idle", "done"}
    /\ Len(handler.log) <= MaxHistory
    /\ client' = [pc |-> "fetching", method |-> method, body |-> body, csrf |-> csrf,
                  attempt |-> 1, sent |-> <<FetchInit(method, body)>>,
                  last |-> NoOutcome, spy |-> <<>>, result |-> NoResult]
    /\ UNCHANGED <<cookies, nav, gate, form, calls, handler, store, auth, provider, cart>>

\* the fetch resolves with a response: request() resumes after its await and
\* clears the timeout, then awaits response.json()
ClientResponds(status) ==
    /\ client.pc = "fetching"
    /\ client' = [client EXCEPT !.pc = "reading", !.last = ResponseOutcome(status)]
    /\ UNCHANGED <<cookies, nav, gate, form, handler, calls, store, auth, provider, cart>>

\* response.json() settles (a rejection gives {detail: 'HTTP <status>'}):
\* request() resumes after its second await
ClientReads(json) ==
    /\ client.pc = "reading"
    /\ LET status == client.last.status
       IN  IF Ok(status)
           THEN /\ client' = Settle(client, Resolved(<<json>>, <<>>, status))
                /\ UNCHANGED handler
           ELSE LET errorMessage == ErrorMessage(status, json)
                    reported == [client EXCEPT !.spy = Append(client.spy, "handleAPIError")]
                IN  /\ handler' = handleAPIError(handler, status, errorMessage)
                    /\ client' =
                         IF status >= 400 /\ status < 500
                         THEN Settle(reported, Resolved(<<>>, <<errorMessage>>, status))
                         ELSE IF client.attempt < retries
                         THEN Retry([reported EXCEPT !.pc = "fetching"])
                         ELSE Settle(reported, Resolved(<<>>, <<errorMessage>>, status))
    /\ UNCHANGED <<cookies, nav, gate, form, calls, store, auth, provider, cart>>

\* the fetch rejects (no connection, or the timeout aborted it): the catch
\* block of request() runs
ClientFetchFails(error) ==
    /\ client.pc = "fetching"
    /\ LET network == error.name = "TypeError" /\ Includes(error.message, "fetch")
           seen == [client EXCEPT !.last = ErrorOutcome(error)]
           reported == IF network
                       THEN [seen EXCEPT !.spy = Append(client.spy, "handleNetworkError")]
                       ELSE seen
       IN  /\ handler' = IF network THEN handleNetworkError(handler) ELSE handler
           /\ client' =
                IF error.name = "AbortError"
                THEN Settle(reported, Resolved(<<>>, <<<<"Request", "timeout">>>>, 0))
                ELSE IF client.attempt < retries
                THEN Retry(reported)
                ELSE Settle(reported, Resolved(<<>>, <<error.message>>, 0))
    /\ UNCHANGED <<cookies, nav, gate, form, calls, store, auth, provider, cart>>

\* ---- the inputs of the API client

ClientRequests ==
    {[method |-> "GET", body |-> <<>>],
     [method |-> "POST", body |-> <<"{\"name\":\"Test\"}">>],
     [method |-> "POST", body |-> <<>>],
     [method |-> "PUT", body |-> <<"{\"name\":\"Test\"}">>],
     [method |-> "DELETE", body |-> <<>>]}

CsrfTokens == {<<>>, <<"test-csrf-token">>}

ClientStatuses == {200, 201, 401, 403, 404, 422, 500}

\* a response body: not JSON, JSON with a detail, JSON with neither detail nor
\* message
JsonBodies ==
    {[parsed |-> FALSE, detail |-> <<>>, message |-> <<>>],
     [parsed |-> TRUE, detail |-> <<<<"Not", "allowed">>>>, message |-> <<>>],
     [parsed |-> TRUE, detail |-> <<>>, message |-> <<>>]}

ClientErrors ==
    {[name |-> "TypeError", message |-> <<"Failed", "to", "fetch">>],
     [name |-> "TypeError", message |-> <<"Load", "failed">>],
     [name |-> "Error", message |-> <<"Network", "error">>],
     [name |-> "AbortError", message |-> <<"The", "operation", "was", "aborted.">>]}

\* ------------------------------------------------------- storage validators

\* a JavaScript value: a primitive with its type and its text, or a flat object
\* with its properties in creation order
Prim(type, text) == [t |-> type, v |-> text, props |-> <<>>]

Undefined == Prim("undefined", "")

Null == Prim("null", "")

Obj(props) == [t |-> "object", v |-> "", props |-> props]

IsNonFinite(value) == value.t = "number" /\ value.v \in {"NaN", "Infinity", "-Infinity"}

\* typeof value (null is an object)
TypeOf(value) == IF value.t = "null" THEN "object" ELSE value.t

\* !value
Falsy(value) ==
    \/ value.t \in {"undefined", "null"}
    \/ value.t = "string" /\ value.v = ""
    \/ value.t = "number" /\ value.v \in {"0", "-0", "NaN"}
    \/ value.t = "boolean" /\ value.v = "false"

Keys(object) == {object.props[k].key : k \in 1..Len(object.props)}

\* object[key]: undefined when there is no such property
Get(object, key) ==
    IF key \in Keys(object)
    THEN LET k == CHOOSE k \in 1..Len(object.props) : object.props[k].key = key
         IN  object.props[k].val
    ELSE Undefined

\* object[key] = val on an object being built: a new key goes to the end
SetProp(props, key, val) ==
    IF \E k \in 1..Len(props) : props[k].key = key
    THEN [k \in 1..Len(props) |->
            IF props[k].key = key THEN [key |-> key, val |-> val] ELSE props[k]]
    ELSE Append(props, [key |-> key, val |-> val])

\* a JSON text is its tokens in order
Token(type, text) == [t |-> type, v |-> text]

\* JSON.stringify of a primitive inside an object: a non-finite number is null
StringifyPrim(value) ==
    IF value.t = "number"
    THEN (IF IsNonFinite(value) THEN Token("literal", "null")
          ELSE Token("number", IF value.v = "-0" THEN "0" ELSE value.v))
    ELSE IF value.t = "string" THEN Token("string", value.v)
    ELSE IF value.t = "boolean" THEN Token("literal", value.v)
    ELSE Token("literal", "null")

RECURSIVE StringifyProps(_, _)
\* the members of an object: a property whose value is undefined is left out
StringifyProps(props, first) ==
    IF props = <<>> THEN <<>>
    ELSE IF Head(props).val.t = "undefined" THEN StringifyProps(Tail(props), first)
    ELSE (IF first THEN <<>> ELSE <<Token("punct", ",")>>)
         \o <<Token("string", Head(props).key), Token("punct", ":"),
              StringifyPrim(Head(props).val)>>
         \o StringifyProps(Tail(props), FALSE)

\* JSON.stringify(value)
Stringify(value) ==
    IF value.t = "object"
    THEN <<Token("punct", "{")>> \o StringifyProps(value.props, TRUE) \o <<Token("punct", "}")>>
    ELSE IF value.t = "undefined" THEN <<>>
    ELSE <<StringifyPrim(value)>>

IsPrimToken(token) ==
    \/ token.t \in {"number", "string"}
    \/ token.t = "literal" /\ token.v \in {"true", "false", "null"}

\* the value of a primitive token
ParsePrim(token) ==
    IF token.t = "literal"
    THEN (IF token.v = "null" THEN Null ELSE Prim("boolean", token.v))
    ELSE Prim(token.t, token.v)

\* the members between the braces are key : value , key : value ...
WellFormedMembers(inner) ==
    \/ inner = <<>>
    \/ /\ Len(inner) % 4 = 3
       /\ \A k \in 1..Len(inner) :
            CASE k % 4 = 1 -> inner[k].t = "string"
              [] k % 4 = 2 -> inner[k] = Token("punct", ":")
              [] k % 4 = 3 -> IsPrimToken(inner[k])
              [] OTHER -> inner[k] = Token("punct", ",")

RECURSIVE ParseMembers(_, _)
\* a key given twice keeps its last value
ParseMembers(inner, props) ==
    IF inner = <<>> THEN props
    ELSE ParseMembers(SubSeq(inner, 5, Len(inner)),
                      SetProp(props, inner[1].v, ParsePrim(inner[3])))

\* JSON.parse(text): the value, or a SyntaxError
Parse(text) ==
    IF Len(text) = 1 /\ IsPrimToken(text[1])
    THEN [ok |-> TRUE, value |-> ParsePrim(text[1])]
    ELSE IF /\ Len(text) >= 2
            /\ text[1] = Token("punct", "{")
            /\ text[Len(text)] = Token("punct", "}")
            /\ WellFormedMembers(SubSeq(text, 2, Len(text) - 1))
    THEN [ok |-> TRUE,
          value |-> Obj(ParseMembers(SubSeq(text, 2, Len(text) - 1), <<>>))]
    ELSE [ok |-> FALSE, value |-> Undefined]

validRoles == {"admin", "user"}

\* the value if it has the type, undefined otherwise
IfTypeOf(value, type) == IF TypeOf(value) = type THEN value ELSE Undefined

\* userSchema.validate(data): null (<<>>) or the validated user
validate(data) ==
    IF Falsy(data) \/ TypeOf(data) # "object" THEN <<>>
    ELSE IF TypeOf(Get(data, "id")) # "number" THEN <<>>
    ELSE IF TypeOf(Get(data, "username")) # "string" THEN <<>>
    ELSE IF TypeOf(Get(data, "email")) # "string" THEN <<>>
    ELSE IF TypeOf(Get(data, "role")) # "string" THEN <<>>
    ELSE IF Get(data, "role").v \notin validRoles THEN <<>>
    ELSE <<Obj(<<[key |-> "id", val |-> Get(data, "id")],
                 [key |-> "username", val |-> Get(data, "username")],
                 [key |-> "email", val |-> Get(data, "email")],
                 [key |-> "role", val |-> Get(data, "role")],
                 [key |-> "full_name", val |-> IfTypeOf(Get(data, "full_name"), "string")],
                 [key |-> "is_active", val |-> IfTypeOf(Get(data, "is_active"), "boolean")],
                 [key |-> "created_at", val |-> IfTypeOf(Get(data, "created_at"), "string")]>>)>>

\* validators.user.serialize(data)
serialize(data) == Stringify(data)

\* what a call gives: it returns a value (<<>> is null) or it throws
Returned(value) == [threw |-> FALSE, value |-> value]

Threw == [threw |-> TRUE, value |-> <<>>]

\* a mutant: deserialize without its try block
deserializeUncaught(data) ==
    IF Parse(data).ok THEN Returned(validate(Parse(data).value)) ELSE Threw

\* validators.user.deserialize(data): the catch block returns null
deserialize(data) ==
    IF Parse(data).ok THEN Returned(validate(Parse(data).value)) ELSE Returned(<<>>)

\* storage.getItem(key, validator) in the browser, item being
\* localStorage.getItem(key) (<<>> is null, <<text>> the stored text)
getItem(item) ==
    IF item = <<>> \/ item[1] = <<>> THEN Returned(<<>>)
    ELSE IF Parse(item[1]).ok THEN Returned(validate(Parse(item[1]).value))
    ELSE Returned(<<>>)

NoProbe ==
    [op |-> "none", input |-> Undefined, item |-> <<>>, text |-> <<>>,
     result |-> Returned(<<>>)]

EmptyStore == [item |-> <<>>, probe |-> NoProbe]

\* a caller serializes a value and deserializes the text again
RoundTrip(u) ==
    /\ store' = [store EXCEPT !.probe =
                    [op |-> "roundtrip", input |-> u, item |-> <<>>,
                     text |-> serialize(u), result |-> deserialize(serialize(u))]]
    /\ UNCHANGED <<cookies, nav, gate, form, calls, client, handler, auth, provider, cart>>

\* a caller deserializes a text
Deserialize(text) ==
    /\ store' = [store EXCEPT !.probe =
                    [op |-> "deserialize", input |-> Undefined, item |-> <<>>,
                     text |-> text, result |-> deserialize(text)]]
    /\ UNCHANGED <<cookies, nav, gate, form, calls, client, handler, auth, provider, cart>>

\* localStorage.setItem('scarf_user', text), by any code of the page
LocalStorageSet(text) ==
    /\ store' = [store EXCEPT !.item = <<text>>]
    /\ UNCHANGED <<cookies, nav, gate, form, calls, client, handler, auth, provider, cart>>

\* localStorage.removeItem('scarf_user') or localStorage.clear()
LocalStorageRemove ==
    /\ store' = [store EXCEPT !.item = <<>>]
    /\ UNCHANGED <<cookies, nav, gate, form, calls, client, handler, auth, provider, cart>>

\* a caller reads the user: storage.getItem(validators.user.key, validators.user.validate)
GetItem ==
    /\ store' = [store EXCEPT !.probe =
                    [op |-> "getItem", input |-> Undefined, item |-> store.item,
                     text |-> <<>>, result |-> getItem(store.item)]]
    /\ UNCHANGED <<cookies, nav, gate, form, calls, client, handler, auth, provider, cart>>

\* ---- the inputs of the storage validator

UserObject(id, username, role, full_name, token) ==
    Obj(<<[key |-> "id", val |-> id],
          [key |-> "username", val |-> username],
          [key |-> "email", val |-> Prim("string", "user@example.com")],
          [key |-> "role", val |-> role],
          [key |-> "full_name", val |-> full_name],
          [key |-> "token", val |-> token]>>)

IdValues == {Prim("number", "1"), Prim("number", "NaN"), Prim("string", "123"), Undefined}

UsernameValues == {Prim("string", "testuser"), Undefined}

RoleValues == {Prim("string", "user"), Prim("string", "admin"), Prim("string", "guest")}

FullNameValues == {Undefined, Prim("string", "Test User"), Prim("number", "7")}

TokenValues == {Undefined, Prim("string", "secret")}

UserValues ==
    {UserObject(id, username, role, full_name, token) :
        id \in IdValues, username \in UsernameValues, role \in RoleValues,
        full_name \in FullNameValues, token \in TokenValues}

TEST_USER ==
    UserObject(Prim("number", "1"), Prim("string", "testuser"), Prim("string", "user"),
               Undefined, Undefined)

GUEST_USER ==
    UserObject(Prim("number", "1"), Prim("string", "testuser"), Prim("string", "guest"),
               Undefined, Undefined)

\* 'invalid json'
INVALID_JSON == <<Token("bare", "invalid"), Token("bare", "json")>>

\* the texts given to deserialize and found in localStorage: a user, the user
\* cut short, a user the validator rejects, not JSON, values that are no object,
\* the empty string
Texts ==
    {Stringify(TEST_USER),
     SubSeq(Stringify(TEST_USER), 1, Len(Stringify(TEST_USER)) - 1),
     Stringify(GUEST_USER),
     INVALID_JSON,
     <<Token("literal", "null")>>,
     <<Token("number", "1")>>,
     <<>>}

\* ---------------------------------------------------------------- useAuth
\* the auth state kept by the hook, restored from localStorage

\* useState<AuthState>(...): user is <<>> for null, error is <<>> for null.
\* logins and logouts count the calls awaiting apiClient.post, effects the runs
\* of the restore effect, op names the last setAuth.
InitialAuth ==
    [user |-> <<>>, isAuthenticated |-> FALSE, isLoading |-> TRUE, error |-> <<>>,
     logins |-> 0, logouts |-> 0, effects |-> 0, op |-> "none"]

\* setAuth({user, isAuthenticated: true, isLoading: false, error: null})
SignedIn(prev, user) ==
    [prev EXCEPT !.user = <<user>>, !.isAuthenticated = TRUE, !.isLoading = FALSE,
                 !.error = <<>>]

\* setAuth({user: null, isAuthenticated: false, isLoading: false, error: null})
SignedOut(prev) ==
    [prev EXCEPT !.user = <<>>, !.isAuthenticated = FALSE, !.isLoading = FALSE,
                 !.error = <<>>]

\* a mutant: a failed login takes the user out of the state
LoginFailedSignsOut(prev, error) ==
    [prev EXCEPT !.user = <<>>, !.isLoading = FALSE, !.error = <<error>>]

\* setAuth(prev => ({...prev, isLoading: false, error}))
LoginFailed(prev, error) ==
    [prev EXCEPT !.isLoading = FALSE, !.error = <<error>>]

INVALID_RESPONSE == "Falha ao fazer login - resposta invalida"

INVALID_AUTH_DATA == "Dados de autenticacao invalidos"

INVALID_USER_DATA == "Dados de usuario invalidos"

\* the restore effect: storage.getItem never throws, so the catch block of the
\* effect is not reached
Restore ==
    /\ LET user == getItem(store.item).value
           ran == [auth EXCEPT !.effects = auth.effects + 1, !.op = "restore"]
       IN  auth' = IF user # <<>> THEN SignedIn(ran, user[1])
                   ELSE [ran EXCEPT !.isLoading = FALSE]
    /\ UNCHANGED <<cookies, nav, gate, form, calls, client, handler, store, provider, cart>>

\* login(credentials) up to its await
LoginStart ==
    /\ auth' = [auth EXCEPT !.isLoading = TRUE, !.error = <<>>,
                            !.logins = auth.logins + 1, !.op = "loginStart"]
    /\ UNCHANGED <<cookies, nav, gate, form, calls, client, handler, store, provider, cart>>

\* login after its await: response is what apiClient.post resolved with, stored
\* is whether localStorage.setItem went through (it throws when the quota is
\* exceeded, and storage.setItem then returns false)
LoginResponds(response, stored) ==
    /\ auth.logins > 0
    /\ LET back == [auth EXCEPT !.logins = auth.logins - 1]
           user == IF TypeOf(response.data) = "object" /\ ~Falsy(response.data)
                   THEN Get(response.data, "user") ELSE Undefined
           validatedUser == validate(user)
       IN  IF response.error # "" \/ Falsy(response.data)
           THEN /\ auth' = [LoginFailed(back, IF response.error # "" THEN response.error
                                               ELSE INVALID_RESPONSE)
                              EXCEPT !.op = "loginFailed"]
                /\ UNCHANGED store
           ELSE IF Falsy(user)
           THEN /\ auth' = [LoginFailed(back, INVALID_AUTH_DATA) EXCEPT !.op = "loginFailed"]
                /\ UNCHANGED store
           ELSE IF validatedUser = <<>>
           THEN /\ auth' = [LoginFailed(back, INVALID_USER_DATA) EXCEPT !.op = "loginFailed"]
                /\ UNCHANGED store
           ELSE /\ store' = IF stored
                            THEN [store EXCEPT !.item = <<Stringify(validatedUser[1])>>]
                            ELSE store
                /\ auth' = [SignedIn(back, validatedUser[1]) EXCEPT !.op = "loginOk"]
    /\ UNCHANGED <<cookies, nav, gate, form, calls, client, handler, provider, cart>>

\* logout() up to its await
LogoutStart ==
    /\ auth' = [auth EXCEPT !.isLoading = TRUE, !.logouts = auth.logouts + 1,
                            !.op = "logoutStart"]
    /\ UNCHANGED <<cookies, nav, gate, form, calls, client, handler, store, provider, cart>>

\* logout after its await: apiClient.post has resolved, with whatever result
LogoutResponds ==
    /\ auth.logouts > 0
    /\ store' = [store EXCEPT !.item = <<>>]
    /\ auth' = [SignedOut([auth EXCEPT !.logouts = auth.logouts - 1])
                  EXCEPT !.op = "logoutDone"]
    /\ UNCHANGED <<cookies, nav, gate, form, calls, client, handler, provider, cart>>

\* ---- the inputs of useAuth

ADMIN_USER ==
    UserObject(Prim("number", "2"), Prim("string", "admin"), Prim("string", "admin"),
               Prim("string", "Admin"), Prim("string", "secret"))

LoginData(user) == Obj(<<[key |-> "user", val |-> user]>>)

\* what apiClient.post('/v1/auth/login') resolves with: an error, no data, data
\* without a user, a user the validator rejects, users it accepts
LoginResponses ==
    {[error |-> "Invalid credentials", data |-> Undefined],
     [error |-> "", data |-> Null],
     [error |-> "", data |-> Obj(<<>>)],
     [error |-> "", data |-> LoginData(GUEST_USER)],
     [error |-> "", data |-> LoginData(TEST_USER)],
     [error |-> "", data |-> LoginData(ADMIN_USER)]}

\* what other code of the page, or an earlier visit, left in localStorage
StoredTexts == {Stringify(TEST_USER), Stringify(GUEST_USER), INVALID_JSON}


\* ------------------------------------------------------------ AuthProvider
\* user and isLoading of the provider, its profile request and its login
\* requests, and the session the backend keeps for the browser

\* a request of the provider: error names what its promise rejects with
NoRequestYet == [pc |-> "idle", ok |-> FALSE, data |-> <<>>, error |-> ""]

\* useState<User | null>(null), useState(true); session is the user the
\* backend knows the browser's session cookie for (<<>> for none); logins
\* counts the calls of login
InitialProvider ==
    [user |-> <<>>, isLoading |-> TRUE, session |-> <<>>,
     profile |-> NoRequestYet, login |-> NoRequestYet, logins |-> 0]

\* the accounts of the backend: the user each username signs in as
Accounts == {TEST_USER, ADMIN_USER}

\* credentials: the user they belong to, <<>> when the backend rejects them
Credentials == {<<>>} \cup {<<u>> : u \in Accounts}

\* the effect of the provider runs fetchProfile(): api.get('/auth/profile')
\* is sent
Mount ==
    /\ provider.profile.pc = "idle"
    /\ provider' = [provider EXCEPT !.profile.pc = "sent"]
    /\ UNCHANGED <<cookies, nav, gate, form, calls, client, handler, store, auth, cart>>

\* the backend answers GET /auth/profile: the user of the session, or 401
ProfileAnswered ==
    /\ provider.profile.pc = "sent"
    /\ provider' = [provider EXCEPT !.profile =
                       [pc |-> "answered", ok |-> provider.session # <<>>,
                        data |-> provider.session,
                        error |-> IF provider.session # <<>> THEN "" ELSE "ApiError"]]
    /\ UNCHANGED <<cookies, nav, gate, form, calls, client, handler, store, auth, cart>>

\* the fetch of the profile rejects
ProfileFetchFails ==
    /\ provider.profile.pc = "sent"
    /\ provider' = [provider EXCEPT !.profile =
                       [pc |-> "answered", ok |-> FALSE, data |-> <<>>, error |-> "TypeError"]]
    /\ UNCHANGED <<cookies, nav, gate, form, calls, client, handler, store, auth, cart>>

\* fetchProfile after its await: setUser(data), or setUser(null) in the catch
\* block, then setIsLoading(false)
ProfileSettles ==
    /\ provider.profile.pc = "answered"
    /\ provider' = [provider EXCEPT
                       !.user = IF provider.profile.ok THEN provider.profile.data ELSE <<>>,
                       !.isLoading = FALSE,
                       !.profile.pc = "settled"]
    /\ UNCHANGED <<cookies, nav, gate, form, calls, client, handler, store, auth, cart>>

\* login(credentials) up to its await: api.post('/auth/login') is sent
LoginCall(credentials) ==
    /\ provider.login.pc \in {"idle", "done", "failed"}
    /\ provider' = [provider EXCEPT
                       !.login = [pc |-> "sent", ok |-> FALSE, data |-> credentials, error |-> ""],
                       !.logins = provider.logins + 1]
    /\ UNCHANGED <<cookies, nav, gate, form, calls, client, handler, store, auth, cart>>

\* the backend answers POST /auth/login: it opens the session and sends the
\* user, or answers 401
LoginAnswered ==
    /\ provider.login.pc = "sent"
    /\ provider' = [provider EXCEPT
                       !.session = IF provider.login.data # <<>> THEN provider.login.data
                                   ELSE provider.session,
                       !.login = [pc |-> "answered", ok |-> provider.login.data # <<>>,
                                  data |-> provider.login.data,
                                  error |-> IF provider.login.data # <<>> THEN ""
                                            ELSE "ApiError"]]
    /\ UNCHANGED <<cookies, nav, gate, form, calls, client, handler, store, auth, cart>>

\* the fetch of the login rejects
LoginFetchFails ==
    /\ provider.login.pc = "sent"
    /\ provider' = [provider EXCEPT !.login =
                       [pc |-> "answered", ok |-> FALSE, data |-> <<>>, error |-> "TypeError"]]
    /\ UNCHANGED <<cookies, nav, gate, form, calls, client, handler, store, auth, cart>>

\* login after its await: setUser(data.user), or the rejection goes to the
\* caller
LoginSettles ==
    /\ provider.login.pc = "answered"
    /\ provider' = IF provider.login.ok
                   THEN [provider EXCEPT !.user = provider.login.data,
                                         !.login.pc = "done"]
                   ELSE [provider EXCEPT !.login.pc = "failed"]
    /\ UNCHANGED <<cookies, nav, gate, form, calls, client, handler, store, auth, cart>>

\* ------------------------------------------------------------ HomePage cart
\* the products the page has loaded and the cart items it keeps

ProductIds == 1..MaxProducts

\* a Product, as far as the cart reads it
Product(id, available_stock) == [id |-> id, available_stock |-> available_stock]

\* useState<Product[]>([]), useState<CartItem[]>([]); loaded tells that the
\* fetch of the products has settled, op names the last handler that ran
EmptyCart ==
    [products |-> <<>>, loaded |-> FALSE, items |-> <<>>,
     op |-> [name |-> "none", id |-> 0, delta |-> 0]]

\* prev.find((i) => i.product.id === id): the entries with that product
Find(prev, id) == SelectSeq(prev, LAMBDA i : i.product.id = id)

\* addToCart's updater
addToCart(prev, product) ==
    IF Find(prev, product.id) # <<>>
    THEN IF Find(prev, product.id)[1].qty >= product.available_stock THEN prev
         ELSE [k \in 1..Len(prev) |->
                  IF prev[k].product.id = product.id
                  THEN [prev[k] EXCEPT !.qty = prev[k].qty + 1]
                  ELSE prev[k]]
    ELSE Append(prev, [product |-> product, qty |-> 1])

\* a mutant: the cap of changeQty lets one more through
changeQtyCapsLate(prev, id, delta) ==
    LET mapped == [k \in 1..Len(prev) |->
                      IF prev[k].product.id # id THEN prev[k]
                      ELSE IF delta > 0
                              /\ prev[k].qty + delta > prev[k].product.available_stock + 1
                      THEN prev[k]
                      ELSE [prev[k] EXCEPT !.qty = prev[k].qty + delta]]
    IN  SelectSeq(mapped, LAMBDA i : i.qty > 0)

\* changeQty's updater
changeQty(prev, id, delta) ==
    LET mapped == [k \in 1..Len(prev) |->
                      IF prev[k].product.id # id THEN prev[k]
                      ELSE IF delta > 0
                              /\ prev[k].qty + delta > prev[k].product.available_stock
                      THEN prev[k]
                      ELSE [prev[k] EXCEPT !.qty = prev[k].qty + delta]]
    IN  SelectSeq(mapped, LAMBDA i : i.qty > 0)

\* removeItem's updater
removeItem(prev, id) == SelectSeq(prev, LAMBDA i : i.product.id # id)

\* the fetch of the products resolves: setProducts(list)
ProductsLoaded(list) ==
    /\ ~cart.loaded
    /\ cart' = [cart EXCEPT !.products = list, !.loaded = TRUE]
    /\ UNCHANGED <<cookies, nav, gate, form, calls, client, handler, store, auth, provider>>

\* the fetch of the products fails: setProducts([])
ProductsFail ==
    /\ ~cart.loaded
    /\ cart' = [cart EXCEPT !.products = <<>>, !.loaded = TRUE]
    /\ UNCHANGED <<cookies, nav, gate, form, calls, client, handler, store, auth, provider>>

\* a click on the add button of the k-th product card: ProductCard.handleAdd
HandleAdd(k) ==
    /\ k \in 1..Len(cart.products)
    /\ LET product == cart.products[k]
       IN  cart' = IF product.available_stock <= 0 THEN cart
                   ELSE [cart EXCEPT !.items = addToCart(cart.items, product),
                                     !.op = [name |-> "addToCart", id |-> product.id,
                                             delta |-> 0]]
    /\ UNCHANGED <<cookies, nav, gate, form, calls, client, handler, store, auth, provider>>

\* a click on the minus or plus button of a cart entry
ChangeQty(id, delta) ==
    /\ Find(cart.items, id) # <<>>
    /\ cart' = [cart EXCEPT !.items = changeQty(cart.items, id, delta),
                            !.op = [name |-> "changeQty", id |-> id, delta |-> delta]]
    /\ UNCHANGED <<cookies, nav, gate, form, calls, client, handler, store, auth, provider>>

\* a click on the remove button of a cart entry
RemoveItem(id) ==
    /\ Find(cart.items, id) # <<>>
    /\ cart' = [cart EXCEPT !.items = removeItem(cart.items, id),
                            !.op = [name |-> "removeItem", id |-> id, delta |-> 0]]
    /\ UNCHANGED <<cookies, nav, gate, form, calls, client, handler, store, auth, provider>>

\* a click on the clear button of the cart
ClearCart ==
    /\ cart' = [cart EXCEPT !.items = <<>>,
                            !.op = [name |-> "clearCart", id |-> 0, delta |-> 0]]
    /\ UNCHANGED <<cookies, nav, gate, form, calls, client, handler, store, auth, provider>>

\* ---- the inputs of the cart

\* the product lists the backend sends: every product once, with any stock
ProductLists ==
    {[k \in ProductIds |-> Product(k, stock[k])] : stock \in [ProductIds -> 0..MaxStock]}

\* ------------------------------------------------------------ specifications

Init ==
    /\ cookies = <<>>
    /\ nav = [state |-> "loaded", pathname |-> ROOT, search |-> <<>>, returnTo |-> <<>>]
    /\ gate = NoGate
    /\ form = FormIdle
    /\ calls = [i \in CallIds |-> IdleCall]
    /\ client = IdleClient
    /\ handler = NoHandler
    /\ store = EmptyStore
    /\ auth = InitialAuth
    /\ provider = InitialProvider
    /\ cart = EmptyCart

\* the forwarder, one call at a time, over the inbound URLs
NextUrl ==
    \/ \E m \in Methods, p \in Segments, q \in Queries, j \in RequestJars,
          b \in RequestBodies :
            Receive(1, m, p, q, j, b)
    \/ \E m \in Methods : Receive(1, m, <<"auth", "login">>, <<>>, TWO_COOKIES, "{}")
    \/ \E st \in {200, 204} : BackendResponds(1, st, <<>>, <<>>)
    \/ BackendFails(1, "TypeError: fetch failed")
    \/ Finish(1)

\* the forwarder, one call at a time, over the backend's responses
NextRelay ==
    \/ \E m \in Methods :
            Receive(1, m, <<"auth", "login">>, <<>>,
                    <<[name |-> SESSION_COOKIE, value |-> "abc"]>>, "{}")
    \/ \E st \in Statuses, h \in HeaderLists, b \in ResponseBodies :
            BackendResponds(1, st, h, b)
    \/ \E e \in FetchErrors : BackendFails(1, e)
    \/ Finish(1)

PairHeaders == {<<>>, <<[name |-> "X-Total", value |-> <<"7">>]>>}

\* the forwarder with its calls in flight together, in any interleaving
NextPair ==
    \/ \E i \in CallIds, m \in {"GET", "POST"} :
            Receive(i, m, <<"categories">>, <<>>, <<>>, "")
    \/ \E i \in CallIds, st \in {200, 204, 500}, h \in PairHeaders :
            BackendResponds(i, st, h, <<"[]">>)
    \/ \E i \in CallIds : BackendFails(i, "TypeError: fetch failed")
    \/ \E i \in CallIds : Finish(i)

\* the API client, one request at a time, over the backend's answers
NextClient ==
    \/ \E r \in ClientRequests, t \in CsrfTokens : ClientRequest(r.method, r.body, t)
    \/ \E st \in ClientStatuses : ClientResponds(st)
    \/ \E j \in JsonBodies : ClientReads(j)
    \/ \E e \in ClientErrors : ClientFetchFails(e)
    \/ ClearErrors

\* ErrorHandler.classifyError over the status codes
NextErrors ==
    \/ \E s \in StatusCodeInputs : Classify(s)
    \/ \E e \in AppErrors : IsAuthError(e)

\* the listener registry: subscriptions, unsubscriptions and reports in any
\* order, each report made on a history of at most MaxHistory errors
NextListeners ==
    \/ \E l \in Listeners : Subscribe(l)
    \/ \E l \in Listeners : Unsubscribe(l)
    \/ Len(handler.log) <= MaxHistory /\ \E e \in HandleInputs : Handle(e)
    \/ Len(handler.log) <= MaxHistory /\ HandleAPIError(500, <<"HTTP", "500">>)
    \/ ClearErrors

\* the error history: a loop of handle(createError(UNKNOWN, `Error ${i}`)), the
\* first MaxVaried errors of a history coming from any entry point
NextHistory ==
    \/ /\ NextNumber(handler.log) < MaxLogged
       /\ Handle(HandleInput("AppError", "UNKNOWN", NumberedMessage(NextNumber(handler.log))))
    \/ /\ Len(handler.log) < MaxVaried
       /\ Handle(HandleInput("Error", "UNKNOWN", <<"Failed", "to", "fetch">>))
    \/ /\ Len(handler.log) < MaxVaried
       /\ HandleAPIError(500, NumberedMessage(NextNumber(handler.log)))
    \/ Len(handler.log) < MaxVaried /\ HandleNetworkError
    \/ ClearErrors

\* the storage validator and storage.getItem over values and texts
NextStorage ==
    \/ \E u \in UserValues : RoundTrip(u)
    \/ \E text \in Texts : Deserialize(text)
    \/ \E text \in Texts : LocalStorageSet(text)
    \/ LocalStorageRemove
    \/ GetItem

SpecGate == Init /\ [][NextGate]_vars
SpecUrl == Init /\ [][NextUrl]_vars
SpecRelay == Init /\ [][NextRelay]_vars
SpecPair == Init /\ [][NextPair]_vars
SpecClient == Init /\ [][NextClient]_vars

\* every fetch settles: it gets a response, it fails, or the timer that
\* request() sets aborts it; the timer is cleared before response.json() is
\* awaited, so nothing makes the reading of the body end
ClientFetchSettles ==
    \/ \E st \in ClientStatuses : ClientResponds(st)
    \/ \E e \in ClientErrors : ClientFetchFails(e)

\* useAuth in one component, with the storage other code can write
NextAuth ==
    \/ auth.effects < MaxEffects /\ Restore
    \/ auth.logins + auth.logouts < MaxFlights /\ LoginStart
    \/ \E response \in LoginResponses, stored \in BOOLEAN : LoginResponds(response, stored)
    \/ auth.logins + auth.logouts < MaxFlights /\ LogoutStart
    \/ LogoutResponds
    \/ \E text \in StoredTexts : LocalStorageSet(text)
    \/ LocalStorageRemove

\* the AuthProvider from its mount on, with calls of login
NextProvider ==
    \/ Mount
    \/ ProfileAnswered
    \/ ProfileFetchFails
    \/ ProfileSettles
    \/ provider.logins < MaxLogins /\ \E c \in Credentials : LoginCall(c)
    \/ LoginAnswered
    \/ LoginFetchFails
    \/ LoginSettles

\* the home page of a user who is no admin: the products load once, then
\* the clicks on the cards and in the cart
NextCart ==
    \/ \E list \in ProductLists : ProductsLoaded(list)
    \/ ProductsFail
    \/ \E k \in ProductIds : HandleAdd(k)
    \/ \E id \in ProductIds, delta \in {1, -1} : ChangeQty(id, delta)
    \/ \E id \in ProductIds : RemoveItem(id)
    \/ ClearCart

SpecClientLive == SpecClient /\ WF_vars(ClientFetchSettles)
SpecErrors == Init /\ [][NextErrors]_vars
SpecListeners == Init /\ [][NextListeners]_vars
SpecHistory == Init /\ [][NextHistory]_vars
SpecStorage == Init /\ [][NextStorage]_vars
SpecAuth == Init /\ [][NextAuth]_vars
SpecProvider == Init /\ [][NextProvider]_vars
SpecCart == Init /\ [][NextCart]_vars

Next == NextGate \/ NextUrl \/ NextRelay \/ NextPair \/ NextClient \/ NextErrors
        \/ NextListeners \/ NextHistory \/ NextStorage \/ NextAuth \/ NextProvider \/ NextCart
Spec == Init /\ [][Next]_vars


\* ------------------------------------------------- claims: the Session Gate

SessionCookiePresent(jar) == CookieValue(jar, SESSION_COOKIE) # <<>>

SessionCookieNonEmpty(jar) == Truthy(CookieValue(jar, SESSION_COOKIE))

RedirectsHome(res) == res = [kind |-> "redirect", pathname |-> HOME, search |-> <<>>]

RedirectsToLoginFor(res, pathname) ==
    /\ res.kind = "redirect"
    /\ res.pathname = LOGIN
    /\ SearchParamsGet(SearchParams(res.search), NEXT_PARAM) = <<pathname>>

Allows(res) == res.kind = "next"

\* C1 as stated: every public path (exactly "/", or starting with "/login") is
\* allowed by the gate, with the session cookie present or absent.
C1_PublicAlwaysAllowed ==
    gate.ran /\ isPublic(gate.pathname) => Allows(gate.res)

\* C1 amended: a public path is allowed unless it matches an auth-only rule and
\* the session cookie has a non-empty value; that request is redirected to /home.
C1_PublicAllowedUnlessAuthOnly ==
    gate.ran /\ isPublic(gate.pathname) =>
        IF isAuthOnly(gate.pathname) /\ SessionCookieNonEmpty(gate.jar)
        THEN RedirectsHome(gate.res)
        ELSE Allows(gate.res)

C1_Witness ==
    /\ gate.ran
    /\ gate.pathname = ROOT
    /\ SessionCookieNonEmpty(gate.jar)
    /\ Allows(gate.res)

\* C2 as stated: on a path matching an auth-only rule, a present session cookie
\* gives a redirect to /home and an absent one lets the request through.
C2_AuthOnlyByPresence ==
    gate.ran /\ isAuthOnly(gate.pathname) =>
        IF SessionCookiePresent(gate.jar)
        THEN RedirectsHome(gate.res)
        ELSE Allows(gate.res)

\* C2 amended: on a path matching an auth-only rule, a session cookie with a
\* non-empty value gives a redirect to /home; an absent or empty session cookie
\* lets the request through.
C2_AuthOnlyByValue ==
    gate.ran /\ isAuthOnly(gate.pathname) =>
        IF SessionCookieNonEmpty(gate.jar)
        THEN RedirectsHome(gate.res)
        ELSE Allows(gate.res)

C2_Witness ==
    /\ gate.ran
    /\ gate.pathname = LOGIN
    /\ SessionCookieNonEmpty(gate.jar)
    /\ RedirectsHome(gate.res)

LOGIN_NEXT_ADMIN_DASHBOARD ==
    <<"n", "e", "x", "t", "=", "%", "2", "F", "a", "d", "m", "i", "n",
      "%", "2", "F", "d", "a", "s", "h", "b", "o", "a", "r", "d">>

\* C3: a request for a non-public path without the session cookie is never let
\* through: it is redirected to /login with a `next` parameter whose value is the
\* requested path (/admin/dashboard gives /login?next=%2Fadmin%2Fdashboard).
C3_ProtectedRedirectsToLogin ==
    gate.ran /\ ~isPublic(gate.pathname) /\ ~SessionCookiePresent(gate.jar) =>
        /\ RedirectsToLoginFor(gate.res, gate.pathname)
        /\ gate.pathname = ADMIN_DASHBOARD => gate.res.search = LOGIN_NEXT_ADMIN_DASHBOARD

C3_Witness ==
    /\ gate.ran
    /\ gate.pathname = ENCODED_SLASH_PATH
    /\ ~SessionCookiePresent(gate.jar)
    /\ RedirectsToLoginFor(gate.res, ENCODED_SLASH_PATH)

\* a step of the middleware
GateStep == nav.state = "requesting" /\ Matcher(nav.pathname) /\ nav' # nav

\* C4: the gate is total: every request gets exactly one of redirect-to-/home,
\* redirect-to-/login and allow, the first rule that applies deciding, and the
\* step changes nothing but the navigation (no cookie, no form state, no
\* forwarded call).
C4_TotalInOrder ==
    [][GateStep =>
        /\ gate'.ran /\ gate'.pathname = nav.pathname /\ gate'.jar = cookies
        /\ LET first == isAuthOnly(nav.pathname) /\ SessionCookieNonEmpty(cookies)
               second == ~isPublic(nav.pathname) /\ ~SessionCookieNonEmpty(cookies)
           IN  /\ first => RedirectsHome(gate'.res)
               /\ ~first /\ second => RedirectsToLoginFor(gate'.res, nav.pathname)
               /\ ~first /\ ~second => Allows(gate'.res)
        /\ UNCHANGED <<cookies, form, calls, client, handler, store, auth, provider, cart>>]_vars

C4_Witness ==
    /\ gate.ran
    /\ gate.pathname = HOME
    /\ ~SessionCookieNonEmpty(gate.jar)
    /\ gate.res.kind = "redirect"
    /\ nav.pathname = LOGIN

\* C5 as stated: the decision is the same for all requests of one path that
\* agree on whether a session cookie is present, whatever its value (the empty
\* value included) and whatever other cookies there are.
C5_DependsOnPresence ==
    gate.ran =>
        \A jar \in CookieJars :
            (SessionCookiePresent(jar) <=> SessionCookiePresent(gate.jar))
                => middleware(gate.pathname, jar) = gate.res

\* C5 amended: the decision is the same for all requests of one path that agree
\* on whether the session cookie has a non-empty value, whatever that value and
\* whatever other cookies there are; an empty session cookie counts as absent.
C5_DependsOnNonEmptyValue ==
    gate.ran =>
        \A jar \in CookieJars :
            (SessionCookieNonEmpty(jar) <=> SessionCookieNonEmpty(gate.jar))
                => middleware(gate.pathname, jar) = gate.res

C5_Witness ==
    /\ gate.ran
    /\ gate.pathname = HOME
    /\ CookieValue(gate.jar, SESSION_COOKIE) = <<"xyz">>
    /\ Len(gate.jar) = 2
    /\ Allows(gate.res)

\* C6: after a successful login from the login page the gate redirected a
\* request for the protected path P to, the form pushes P; with no `next`
\* parameter it pushes /home; a failed login pushes nothing and leaves the
\* navigation alone.
C6_ReturnTo ==
    /\ form.outcome = "ok" /\ form.returnTo # <<>> => form.pushed = form.returnTo
    /\ form.outcome = "ok"
       /\ (\A i \in 1..Len(SearchParams(form.search)) :
               SearchParams(form.search)[i].name # NEXT_PARAM)
         => form.pushed = <<HOME>>
    /\ form.outcome = "failed" =>
         form.pushed = <<>> /\ nav.state = "loaded" /\ nav.pathname = LOGIN

C6_Witness ==
    /\ form.outcome = "ok"
    /\ form.returnTo = <<ENCODED_SLASH_PATH>>
    /\ form.pushed = <<ENCODED_SLASH_PATH>>
    /\ nav.pathname = ENCODED_SLASH_PATH


\* ------------------------------------------------ claims: the API Forwarder

\* the call has a backend response to relay
Answered(c) == c.pc = "settled" /\ c.backend.kind = "response"

\* the call's outbound fetch threw
FetchThrew(c) == c.pc = "settled" /\ c.backend.kind = "error"

SetCookies(headers) == ValuesOf(headers, "set-cookie")

\* C7: a backend response with two or more Set-Cookie headers is relayed with
\* the same Set-Cookie headers, one header each, same values, same order.
C7_SetCookiesPreserved ==
    \A i \in CallIds :
        Answered(calls[i]) /\ Len(SetCookies(calls[i].backend.headers)) >= 2 =>
            /\ calls[i].res.kind = "response"
            /\ SetCookies(calls[i].res.headers) = SetCookies(calls[i].backend.headers)

\* the lower-case names of the headers of a list
HeaderNames(headers) == {ToLowerCase(headers[k].name) : k \in 1..Len(headers)}

ENCODING_HEADERS == {"transfer-encoding", "content-encoding"}

\* C8: the relayed response has no Transfer-Encoding and no Content-Encoding
\* header, and has every other header of the backend's response with the
\* backend's value (the values of one name combined, as Headers.get gives them).
C8_EncodingDroppedRestKept ==
    \A i \in CallIds :
        Answered(calls[i]) =>
            /\ HeaderNames(calls[i].res.headers) \cap ENCODING_HEADERS = {}
            /\ \A n \in HeaderNames(calls[i].backend.headers) \ ENCODING_HEADERS :
                 IF n = "set-cookie"
                 THEN SetCookies(calls[i].res.headers) = SetCookies(calls[i].backend.headers)
                 ELSE ValuesOf(calls[i].res.headers, n)
                        = <<Flatten(ValuesOf(calls[i].backend.headers, n))>>

\* the call has issued its outbound fetch
Forwarded(c) == c.pc \in {"fetching", "settled"}

PathOf(segs) == Join(Singletons(segs), <<"/">>)

\* C9 as stated: one outbound call, same method, to
\* backend-origin + "/api/" + p joined by "/" + ("?" + q if q is non-empty).
C9_TargetUrlVerbatim ==
    \A i \in CallIds :
        Forwarded(calls[i]) =>
            /\ Len(calls[i].out) = 1
            /\ calls[i].out[1].method = calls[i].req.method
            /\ calls[i].out[1].url =
                 <<BACKEND_API>> \o PathOf(calls[i].req.segs)
                 \o (IF calls[i].req.query # <<>>
                     THEN <<"?">> \o calls[i].req.query ELSE <<>>)

LETTERS == {"a", "c", "e", "l", "o", "p", "t"}

\* a query string that is name=value pairs of letters joined by "&"
PlainPairs(query) ==
    /\ query # <<>>
    /\ \A piece \in {Split(query, "&")[k] : k \in 1..Len(Split(query, "&"))} :
         /\ Len(SelectSeqOf(piece, {"="})) = 1
         /\ \A k \in 1..Len(piece) : piece[k] \in LETTERS \cup {"="}

PRODUCTS_1_LOCALE_PT ==
    <<BACKEND_API, "products", "/", "1", "?",
      "l", "o", "c", "a", "l", "e", "=", "p", "t">>

\* C9 amended: one outbound call, same method, to backend-origin + "/api/" + p
\* joined by "/" + ("?" + s if s is non-empty), where s is the query string's
\* parameters serialized again (URLSearchParams.toString()): s has the
\* parameters of q, and is q itself when q is plain name=value pairs joined by
\* "&" (GET products/1?locale=pt -> .../api/products/1?locale=pt).
C9_TargetUrlReserialized ==
    \A i \in CallIds :
        Forwarded(calls[i]) =>
            LET url == calls[i].out[1].url
                base == <<BACKEND_API>> \o PathOf(calls[i].req.segs)
                rest == SubSeq(url, Len(base) + 1, Len(url))
                params == SearchParams(calls[i].req.query)
            IN  /\ Len(calls[i].out) = 1
                /\ calls[i].out[1].method = calls[i].req.method
                /\ StartsWith(url, base)
                /\ params = <<>> => rest = <<>>
                /\ params # <<>> =>
                     /\ rest # <<>>
                     /\ Head(rest) = "?"
                     /\ SearchParams(Tail(rest)) = params
                     /\ SearchParamsToString(SearchParams(Tail(rest))) = Tail(rest)
                /\ PlainPairs(calls[i].req.query) => rest = <<"?">> \o calls[i].req.query
                /\ calls[i].req.segs = <<"products", "1">> /\ calls[i].req.query = LOCALE_PT
                     => url = PRODUCTS_1_LOCALE_PT

C9_Witness ==
    \E i \in CallIds :
        /\ Forwarded(calls[i])
        /\ calls[i].req.method = "GET"
        /\ calls[i].req.segs = <<"products", "1">>
        /\ calls[i].req.query = LOCALE_PT
        /\ Len(calls[i].out) = 1
        /\ calls[i].out[1].url = PRODUCTS_1_LOCALE_PT

\* the keys of a JSON text that is an object with one string member
JsonKeys(body) ==
    IF Len(body) >= 5 /\ body[1] = "{" /\ body[3] = ":" /\ body[4] = "\""
       /\ body[Len(body) - 1] = "\"" /\ body[Len(body)] = "}"
    THEN {body[2]} ELSE {}

\* C10: when the outbound call of a POST, PUT or DELETE throws, the handler
\* answers 500 with a JSON body that has an `error` field, and has made that one
\* outbound call only.
C10_MutatingFetchErrorIs500 ==
    \A i \in CallIds :
        FetchThrew(calls[i]) /\ calls[i].req.method \in {"POST", "PUT", "DELETE"} =>
            /\ calls[i].res.kind = "response"
            /\ calls[i].res.status = 500
            /\ "\"error\"" \in JsonKeys(calls[i].res.body)
            /\ Len(calls[i].out) = 1

C10_Witness ==
    \E i \in CallIds :
        /\ FetchThrew(calls[i])
        /\ calls[i].req.method = "DELETE"
        /\ calls[i].res.status = 500
        /\ calls[i].backend.error = "TypeError: fetch failed"

\* C11 as stated: with any of the four verbs, when the outbound call throws the
\* handler catches the error and answers 500 with a JSON body that has an
\* `error` field; the error never leaves the handler.
C11_EveryVerbCatches ==
    \A i \in CallIds :
        FetchThrew(calls[i]) =>
            /\ calls[i].res.kind = "response"
            /\ calls[i].res.status = 500
            /\ "\"error\"" \in JsonKeys(calls[i].res.body)

\* C12 as stated: whenever the backend returns a response, of any status, the
\* relayed response has the backend's status and the backend's body.
C12_BackendResponseRelayed ==
    \A i \in CallIds :
        Answered(calls[i]) =>
            /\ calls[i].res.kind = "response"
            /\ calls[i].res.status = calls[i].backend.status
            /\ calls[i].res.body = calls[i].backend.body

\* C13: a GET keeps no local state: two calls with the same GET request that
\* got the same answer from the backend, in any interleaving with other calls,
\* relayed the same outcome (status and body), and every GET call made its own
\* outbound fetch (nothing is answered from a cache).
C13_GetIdempotent ==
    /\ \A i \in CallIds :
          Forwarded(calls[i]) /\ calls[i].req.method = "GET" =>
              /\ Len(calls[i].out) = 1
              /\ calls[i].out[1] = OutboundCall(calls[i].req)
    /\ \A i, j \in CallIds :
          /\ Answered(calls[i]) /\ Answered(calls[j])
          /\ calls[i].req.method = "GET"
          /\ calls[i].req = calls[j].req
          /\ calls[i].backend = calls[j].backend
          => /\ calls[i].res.kind = calls[j].res.kind
             /\ calls[i].res.status = calls[j].res.status
             /\ calls[i].res.body = calls[j].res.body

C13_Witness ==
    /\ Answered(calls[1]) /\ Answered(calls[2])
    /\ calls[1].req.method = "GET"
    /\ calls[1].req = calls[2].req
    /\ calls[1].backend = calls[2].backend
    /\ calls[1].res.kind = "response" /\ calls[1].res.status = 200
    /\ calls[2].res.status = 200 /\ calls[2].res.body = <<"[]">>
    /\ Len(calls[1].out) = 1 /\ Len(calls[2].out) = 1

SESSION_AND_THEME == <<SESSION_COOKIE, "=", "abc", "; ", "theme", "=", "dark">>

\* C14: the outbound request of a POST, PUT or DELETE has one Cookie header,
\* the inbound request's cookies as name=value joined by "; " in their order;
\* with no inbound cookie no Cookie header is set.
C14_MutatingCookieHeader ==
    \A i \in CallIds :
        Forwarded(calls[i]) /\ calls[i].req.method \in {"POST", "PUT", "DELETE"} =>
            LET jar == calls[i].req.jar
                cookie == calls[i].out[1].cookie
            IN  /\ jar = <<>> => cookie = <<>>
                /\ jar # <<>> =>
                     /\ Len(cookie) = 1
                     /\ Split(cookie[1], "; ")
                          = [k \in 1..Len(jar) |-> <<jar[k].name, "=", jar[k].value>>]
                /\ jar = TWO_COOKIES => cookie = <<SESSION_AND_THEME>>

C14_Witness ==
    \E i \in CallIds :
        /\ Forwarded(calls[i])
        /\ calls[i].req.method = "PUT"
        /\ calls[i].req.jar = TWO_COOKIES
        /\ calls[i].out[1].cookie = <<SESSION_AND_THEME>>

\* C15: calls in flight together are independent: a step of one call (its
\* request, the backend's answer to it, its failure) leaves every other call
\* as it was, and the response a call settles with is a function of its own
\* request and of the backend's answer to its own fetch: any other settled
\* call with that request and that answer has the same response.
C15_CallsIndependent ==
    [][\A i \in CallIds :
          calls'[i] # calls[i] =>
              /\ \A j \in CallIds \ {i} : calls'[j] = calls[j]
              /\ calls'[i].pc = "settled" =>
                    /\ calls'[i].req = calls[i].req
                    /\ \A j \in CallIds \ {i} :
                          /\ calls[j].pc = "settled"
                          /\ calls[j].req = calls'[i].req
                          /\ calls[j].backend = calls'[i].backend
                          => calls[j].res = calls'[i].res]_vars

C15_Witness ==
    /\ FetchThrew(calls[1])
    /\ calls[1].req.method = "POST"
    /\ calls[1].res.status = 500
    /\ Answered(calls[2])
    /\ calls[2].req.method = "POST"
    /\ calls[2].res.kind = "response"
    /\ calls[2].res.status = 200

\* ------------------------------- claims: the API client and the ErrorHandler

\* the request is over and its promise settled
Done(c) == c.pc = "done"

MUTATING == {"POST", "PUT", "DELETE"}

REQUEST_TIMEOUT == <<"Request", "timeout">>

\* C16 as stated: the promise of apiClient.get and apiClient.post rejects when
\* the last answer was a non-ok status or the fetch failed, and resolves only
\* for an ok response.
C16_RejectsOnFailure ==
    Done(client) /\ client.method \in {"GET", "POST"} =>
        IF Ok(client.result.status)
        THEN client.result.kind = "resolved"
        ELSE client.result.kind = "rejected"

\* C17 as stated: every POST, PUT or DELETE fetch sent while the page has a
\* CSRF token carries an X-CSRF-Token header with that token.
C17_CsrfHeaderAttached ==
    client.method \in MUTATING /\ client.csrf # <<>> =>
        \A k \in 1..Len(client.sent) :
            ValuesOf(client.sent[k].headers, "x-csrf-token") = <<client.csrf>>

\* C18 as stated: a GET that ended with a 401, a 403 or a network error has
\* called ErrorHandler.handle at least once.
C18_FailureReportedViaHandle ==
    /\ Done(client) /\ client.method = "GET"
    /\ \/ client.result.status \in {401, 403}
       \/ client.result.status = 0 /\ client.result.error # <<REQUEST_TIMEOUT>>
    => Includes(client.spy, "handle")

\* C19: classifyError gives AUTHENTICATION for 401, AUTHORIZATION for 403,
\* NOT_FOUND for 404, SERVER for every code from 500 up, VALIDATION for 422 and
\* UNKNOWN for no status code.
C19_ClassifyTable ==
    handler.classified # <<>> =>
        LET code == handler.classified[1].statusCode
            type == handler.classified[1].type
        IN  /\ code = <<401>> => type = "AUTHENTICATION"
            /\ code = <<403>> => type = "AUTHORIZATION"
            /\ code = <<404>> => type = "NOT_FOUND"
            /\ code = <<422>> => type = "VALIDATION"
            /\ code # <<>> /\ code[1] >= 500 => type = "SERVER"
            /\ code = <<>> => type = "UNKNOWN"

C19_Witness ==
    handler.classified = <<[statusCode |-> <<503>>, type |-> "SERVER"]>>

\* C20 as stated: a status code that is not 401, 403, 404 or 422 and is below
\* 500 (418, say) is classified UNKNOWN.
C20_OtherCodesUnknown ==
    handler.classified # <<>> /\ handler.classified[1].statusCode # <<>> =>
        LET code == handler.classified[1].statusCode[1]
        IN  code \notin {401, 403, 404, 422} /\ code < 500
                => handler.classified[1].type = "UNKNOWN"

\* C21 as stated: isAuthError is true of every error of type AUTHENTICATION or
\* AUTHORIZATION, with or without a status code, and false of an error of type
\* SERVER or VALIDATION whose status code is not 401 or 403.
C21_AuthTypesAreAuthErrors ==
    handler.authChecked # <<>> =>
        LET error == handler.authChecked[1].error
            result == handler.authChecked[1].result
        IN  /\ error.type \in {"AUTHENTICATION", "AUTHORIZATION"} => result
            /\ error.type \in {"SERVER", "VALIDATION"}
                 /\ error.statusCode \notin {<<401>>, <<403>>} => ~result

\* the calls of listener l in a notification
CallsOf(delivered, l) == {k \in 1..Len(delivered) : delivered[k].listener = l}

\* a step that reports an error: the history takes it
Reports == handler'.log # handler.log /\ handler'.log # <<>>

\* C22: whatever subscriptions and unsubscriptions came before, a report calls
\* every listener that is subscribed (its last registry operation is an
\* onError) exactly once, with the error reported, and calls no listener whose
\* unsubscribe function has been called since.
C22_ListenersNotifiedOnce ==
    [][Reports =>
        /\ \A l \in Listeners :
              Cardinality(CallsOf(handler'.delivered, l))
                  = IF handler.lastOp[l] = "sub" THEN 1 ELSE 0
        /\ \A k \in 1..Len(handler'.delivered) :
              handler'.delivered[k].error = handler'.log[Len(handler'.log)]]_vars

C22_Witness ==
    /\ handler.lastOp[1] = "unsub"
    /\ handler.lastOp[2] = "sub"
    /\ handler.log # <<>>
    /\ Len(handler.delivered) = 1
    /\ handler.delivered[1].listener = 2
    /\ handler.delivered[1].error = handler.log[Len(handler.log)]
    /\ handler.delivered[1].error.message = <<"Test", "error">>

\* C23: the history is a bounded FIFO: it never has more than 50 errors; a
\* report adds its error at the end, keeps the earlier ones in their order and
\* drops the oldest one only when the history was full; clearErrors leaves it
\* empty.
C23_HistoryBoundedFifo ==
    [][handler'.log # handler.log =>
        /\ Len(handler'.log) <= 50
        /\ \/ handler'.log = <<>>
           \/ /\ handler'.log # <<>>
              /\ SubSeq(handler'.log, 1, Len(handler'.log) - 1)
                   = IF Len(handler.log) < 50 THEN handler.log ELSE Tail(handler.log)]_vars

C23_Witness ==
    /\ Len(handler.log) = 50
    /\ handler.log[1].message = NumberedMessage(2)
    /\ handler.log[50].message = NumberedMessage(51)

\* ------------------------------------------------ claims: storage validators

\* toEqual: the same value for every key, a property that is undefined counting
\* as a missing one
Equal(a, b) == \A key \in Keys(a) \cup Keys(b) : Get(a, key) = Get(b, key)

\* the text is not valid JSON, or the validator rejects its value
Rejected(text) == ~Parse(text).ok \/ validate(Parse(text).value) = <<>>

\* deserialize and storage.getItem give null, without throwing, for a text that
\* is no JSON or that the validator rejects, and for a missing key
NullForRejected ==
    /\ store.probe.op \in {"roundtrip", "deserialize"} /\ Rejected(store.probe.text)
         => store.probe.result = Returned(<<>>)
    /\ store.probe.op = "getItem"
         /\ (store.probe.item = <<>> \/ Rejected(store.probe.item[1]))
         => store.probe.result = Returned(<<>>)

\* C24 as stated: for every value u the validator accepts,
\* deserialize(serialize(u)) equals u; a text that is no JSON or is rejected
\* gives null without a throw, from deserialize and from storage.getItem.
C24_RoundTripIdentity ==
    /\ store.probe.op = "roundtrip" /\ validate(store.probe.input) # <<>> =>
          /\ ~store.probe.result.threw
          /\ store.probe.result.value # <<>>
          /\ Equal(store.probe.result.value[1], store.probe.input)
    /\ NullForRejected

\* C24 amended: for every value u the validator accepts whose id is a finite
\* number, deserialize(serialize(u)) equals validate(u), which is u without the
\* properties the validator does not keep (it is u for the user of the test);
\* for an accepted u whose id is NaN or infinite it is null; a text that is no
\* JSON or is rejected gives null without a throw, from deserialize and from
\* storage.getItem.
C24_RoundTripValidated ==
    /\ store.probe.op = "roundtrip" /\ validate(store.probe.input) # <<>> =>
          IF IsNonFinite(Get(store.probe.input, "id"))
          THEN store.probe.result = Returned(<<>>)
          ELSE /\ ~store.probe.result.threw
               /\ store.probe.result.value # <<>>
               /\ Equal(store.probe.result.value[1], validate(store.probe.input)[1])
               /\ store.probe.input = TEST_USER
                    => Equal(store.probe.result.value[1], TEST_USER)
    /\ NullForRejected

C24_Witness ==
    /\ store.probe.op = "roundtrip"
    /\ store.probe.input = TEST_USER
    /\ store.probe.result.value # <<>>
    /\ Get(store.probe.result.value[1], "username") = Prim("string", "testuser")
    /\ Get(store.probe.result.value[1], "id") = Prim("number", "1")

\* a step in which an attempt of request() ends: the body of its response has
\* been read, or its fetch has failed
AttemptEnds == client.pc \in {"fetching", "reading"} /\ client'.pc # "reading"
               /\ client' # client

\* at most `retries` fetches; no fetch after a 4xx response or a timeout abort;
\* another fetch after a 5xx response or another failure while fewer than
\* `retries` were made
RetryPolicyBounded ==
    [][AttemptEnds =>
        LET o == client'.last
            again == /\ client'.pc = "fetching"
                     /\ Len(client'.sent) = Len(client.sent) + 1
            ended == client'.pc = "done" /\ client'.sent = client.sent
        IN  /\ Len(client'.sent) <= retries
            /\ o.kind = "response" /\ o.status >= 400 /\ o.status < 500 =>
                  /\ ended
                  /\ client'.result.error # <<>>
                  /\ client'.result.status = o.status
            /\ o.kind = "error" /\ o.name = "AbortError" =>
                  /\ ended
                  /\ client'.result.error = <<REQUEST_TIMEOUT>>
                  /\ client'.result.status = 0
            /\ \/ o.kind = "response" /\ o.status >= 500
               \/ o.kind = "error" /\ o.name # "AbortError"
               => IF Len(client.sent) < retries
                  THEN again
                  ELSE ended /\ client'.result.error # <<>>]_vars

\* C25: a request makes at most `retries` (3) fetches; after a 4xx response
\* there is no other fetch and {error, status} is returned; after a timeout
\* abort there is no other fetch and {error: 'Request timeout', status: 0} is
\* returned; after a 5xx response or another failure the fetch is made again
\* while fewer than `retries` were made, and the error is returned otherwise;
\* every request ends.
C25_RetryBoundedAndEnds ==
    /\ RetryPolicyBounded
    /\ (client.pc \in {"fetching", "reading"} ~> client.pc = "done")

\* a request whose third fetch got a 500 response has ended
ThirdAttemptEnded ==
    /\ client.pc = "done"
    /\ Len(client.sent) = 3
    /\ client.last = ResponseOutcome(500)
    /\ client.result.status = 500

\* C26: isAuthenticated is true exactly when user is not null; a failed login
\* changes neither user nor isAuthenticated nor the stored 'scarf_user' entry,
\* and leaves an error and isLoading false; when a logout completes user is
\* null and the stored entry is removed.
C26_UseAuthInvariant ==
    /\ [](auth.isAuthenticated <=> auth.user # <<>>)
    /\ [][auth'.op = "loginFailed" /\ auth' # auth =>
            /\ auth'.user = auth.user
            /\ auth'.isAuthenticated = auth.isAuthenticated
            /\ store'.item = store.item
            /\ auth'.error # <<>>
            /\ ~auth'.isLoading]_vars
    /\ [][auth'.op = "logoutDone" /\ auth' # auth =>
            /\ auth'.user = <<>>
            /\ ~auth'.isAuthenticated
            /\ store'.item = <<>>]_vars

\* a login failed while a user was signed in and stored
C26_Witness ==
    /\ auth.op = "loginFailed"
    /\ auth.user # <<>>
    /\ auth.isAuthenticated
    /\ store.item # <<>>
    /\ auth.error = <<INVALID_USER_DATA>>

\* C27: once a login has completed successfully and the initial profile
\* request has settled too, user is not null and isLoading is false: the
\* failure of the older profile request does not overwrite the user the login
\* set.
C27_LoginNotOverwritten ==
    provider.login.pc = "done" /\ provider.profile.pc = "settled" =>
        provider.user # <<>> /\ ~provider.isLoading

\* the quantity the cart holds of a product, 0 when it has no entry
QtyOf(items, id) == IF Find(items, id) = <<>> THEN 0 ELSE Find(items, id)[1].qty

\* C28: the cart holds at most one entry per product id and every entry has
\* 1 <= qty <= available_stock of its product; a plus click at available_stock
\* changes nothing, a minus click at 1 removes the entry, any other plus or
\* minus click moves qty by one.
C28_CartInvariants ==
    /\ [](\A k \in 1..Len(cart.items) :
            /\ Len(Find(cart.items, cart.items[k].product.id)) = 1
            /\ cart.items[k].qty >= 1
            /\ cart.items[k].qty <= cart.items[k].product.available_stock)
    /\ [][cart'.op.name = "changeQty" /\ cart' # cart =>
            LET id == cart'.op.id
                qty == QtyOf(cart.items, id)
                stock == Find(cart.items, id)[1].product.available_stock
            IN  IF cart'.op.delta = 1 /\ qty = stock THEN cart'.items = cart.items
                ELSE IF cart'.op.delta = -1 /\ qty = 1
                THEN Find(cart'.items, id) = <<>>
                ELSE QtyOf(cart'.items, id) = qty + cart'.op.delta]_vars

\* a plus click on an entry that is at its stock, with another entry in the cart
C28_Witness ==
    /\ cart.op = [name |-> "changeQty", id |-> 1, delta |-> 1]
    /\ Len(cart.items) = 2
    /\ QtyOf(cart.items, 1) = 2
    /\ Find(cart.items, 1)[1].product.available_stock = 2

\* the request in flight is the one the browser makes to follow the redirect
\* the gate has just emitted, and the cookies are those the gate saw
FollowsRedirect ==
    /\ gate.ran
    /\ gate.res.kind = "redirect"
    /\ nav.state = "requesting"
    /\ nav.pathname = gate.res.pathname
    /\ nav.search = gate.res.search
    /\ cookies = gate.jar

\* C29: the target of every redirect the gate emits is a path the gate runs
\* for and allows under the cookies it has seen, and the request that follows
\* a redirect under the same cookies passes the gate and loads the page: no
\* navigation takes more than one redirect.
C29_NoRedirectLoop ==
    /\ [](gate.ran /\ gate.res.kind = "redirect" =>
            /\ gate.res.pathname \in {HOME, LOGIN}
            /\ Matcher(gate.res.pathname)
            /\ middleware(gate.res.pathname, gate.jar) = NextResponseNext)
    /\ [][FollowsRedirect /\ nav' # nav =>
            /\ gate'.pathname = nav.pathname
            /\ gate'.res = NextResponseNext
            /\ nav'.state = "loaded"
            /\ nav'.pathname = nav.pathname]_vars

\* the page of the redirect target is loaded after the one redirect: /login for
\* a request that carried a session cookie without a value
C29_Witness ==
    /\ gate.ran
    /\ gate.pathname = LOGIN
    /\ gate.res = NextResponseNext
    /\ CookieValue(gate.jar, SESSION_COOKIE) = <<"">>
    /\ nav.state = "loaded"
    /\ nav.pathname = LOGIN
    /\ nav.returnTo = <<ADMIN_DASHBOARD>>

=============================================================================
